---- MODULE Spec2Model ----
(***************************************************************************)
(* Model of the datashield-vault synchronisation engine: the filesystem    *)
(* event handlers (watcher/handler.py), the catalog repository             *)
(* (db/repository.py, db/session.py, db/models.py), the object-store       *)
(* client (minio_client/client.py) and the read endpoints (api/routes.py). *)
(***************************************************************************)
EXTENDS Integers, Sequences, FiniteSets, Bags, TLC

(***************************************************************************)
(* Bounds of the exploration.                                              *)
(***************************************************************************)
MaxWorkers == 2      \* handler coroutines alive at the same time
MaxTicks == 2        \* clock advances in one behaviour
MaxId == 2           \* rows ever inserted into the objects table

(***************************************************************************)
(* Program constants.                                                      *)
(***************************************************************************)
DEBOUNCE_SECONDS == 2
PROCESSING_TIMEOUT == 300

IGNORED_FILES == {".vault_key", ".DS_Store"}
HiddenNames == {".vault_key", ".DS_Store"}   \* names that start with "."

READY == "READY"
UPDATING == "UPDATING"
DELETED == "DELETED"
ObjectStatus == {READY, UPDATING, DELETED}

(***************************************************************************)
(* Universe: one collection directory below the collections root, the      *)
(* files that writers put there, and the byte contents they write.         *)
(***************************************************************************)
NoTime == -1          \* a dict without the path / a timestamp that is None
NoParse == <<>>       \* parse_collection_path returning None
Absent == "Absent"    \* no file at the path / no blob at the key

CollectionNames == {"alpha"}
FileNames == {"README.md"}
Paths == {<<c, n>> : c \in CollectionNames, n \in FileNames}
Contents == {"hello", "world!"}

\* clock advances explored: below the debounce window, and a whole
\* processing timeout
TickSteps == {1, PROCESSING_TIMEOUT}

\* hashlib.sha256 over the bytes read: distinct contents, distinct digests
sha256(bytes) == "sha256:" \o bytes

\* f.read() chunk lengths summed up
byte_length(bytes) == IF bytes = "hello" THEN 5 ELSE 6

VARIABLES
    now,            \* time.time()
    ticks,          \* number of clock advances so far
    fs,             \* collections root: path -> bytes or Absent
    store,          \* MinIO bucket: object_key -> bytes or Absent
    collections,    \* rows of table "collections" (names)
    catalog,        \* committed rows of table "objects"
    next_id,        \* autoincrement of objects.id
    in_flight,      \* _files_in_progress: path -> start timestamp or None
    last_event,     \* _last_event_time: path -> timestamp or None
    workers,        \* handler coroutines that passed their gate
    evicted,        \* history: a stale in-flight entry of the path was evicted
    last_outcome,   \* history: how the last ended ingestion of the path ended
    last_dispatch,  \* history: when the last pipeline of the path was dispatched
    last_gate       \* history: what the gate did with the last create/modify event

vars == <<now, ticks, fs, store, collections, catalog, next_id, in_flight,
          last_event, workers, evicted, last_outcome, last_dispatch, last_gate>>

----------------------------------------------------------------------------
(***************************************************************************)
(* Pure helpers of watcher/handler.py.                                     *)
(***************************************************************************)
should_ignore(name) == name \in HiddenNames \/ name \in IGNORED_FILES

\* a path is the tuple of its parts relative to collections_root
parse_collection_path(path) ==
    IF Len(path) # 2 THEN NoParse ELSE <<path[1], path[2]>>

object_key_of(collection, name) == collection \o "/" \o name

KeyOfPath(p) == object_key_of(p[1], p[2])

\* except Exception: every error a pipeline step raises is an Exception
ExceptionKinds == {"TypeError", "OSError", "S3Error", "CircuitBreakerError",
                   "SQLAlchemyError"}

\* variant: the handler catches store errors only
caught_store_errors_only(exc) == exc \in {"S3Error", "OSError"}

caught_by_worker(exc) == exc \in ExceptionKinds

\* what the statement at a pc of the pipeline can raise
raised_at(pc) ==
    CASE pc = "ensure" -> {"TypeError", "OSError", "SQLAlchemyError"}
      [] pc = "hash" -> {"OSError"}
      [] pc = "upload" -> {"OSError", "S3Error", "CircuitBreakerError"}
      [] OTHER -> {"SQLAlchemyError"}

\* variant: the gate without the check of _files_in_progress
gate_without_in_flight_check(started_at, last_time, t) ==
    IF last_time # NoTime /\ t - last_time < DEBOUNCE_SECONDS /\ started_at = NoTime
    THEN [evict |-> FALSE, dispatch |-> FALSE, why |-> "debounce"]
    ELSE [evict |-> FALSE, dispatch |-> TRUE, why |-> "dispatched"]

\* variant: the gate without the debounce check
gate_without_debounce(started_at, last_time, t) ==
    IF started_at # NoTime /\ t - started_at < PROCESSING_TIMEOUT
    THEN [evict |-> FALSE, dispatch |-> FALSE, why |-> "in_flight"]
    ELSE [evict |-> started_at # NoTime, dispatch |-> TRUE, why |-> "dispatched"]

\* variant: an event exactly DEBOUNCE_SECONDS after the last one is dropped
gate_debounce_inclusive(started_at, last_time, t) ==
    IF started_at # NoTime /\ t - started_at < PROCESSING_TIMEOUT
    THEN [evict |-> FALSE, dispatch |-> FALSE, why |-> "in_flight"]
    ELSE IF last_time # NoTime /\ t - last_time <= DEBOUNCE_SECONDS
         THEN [evict |-> started_at # NoTime, dispatch |-> FALSE, why |-> "debounce"]
         ELSE [evict |-> started_at # NoTime, dispatch |-> TRUE, why |-> "dispatched"]

\* the gate of handle_file_created_or_modified, evaluated under
\* _processing_lock: whether a stale entry is evicted, whether the event
\* is dispatched
gate_created_or_modified(started_at, last_time, t) ==
    IF started_at # NoTime /\ t - started_at < PROCESSING_TIMEOUT
    THEN [evict |-> FALSE, dispatch |-> FALSE, why |-> "in_flight"]
    ELSE IF last_time # NoTime /\ t - last_time < DEBOUNCE_SECONDS
         THEN [evict |-> started_at # NoTime, dispatch |-> FALSE, why |-> "debounce"]
         ELSE [evict |-> started_at # NoTime, dispatch |-> TRUE, why |-> "dispatched"]

\* variant: the gate of handle_file_deleted without the check of
\* _files_in_progress
gate_deleted_without_in_flight_check(started_at, last_time, t) ==
    IF last_time # NoTime /\ t - last_time < DEBOUNCE_SECONDS THEN FALSE
    ELSE TRUE

\* the gate of handle_file_deleted
gate_deleted(started_at, last_time, t) ==
    IF started_at # NoTime THEN FALSE
    ELSE IF last_time # NoTime /\ t - last_time < DEBOUNCE_SECONDS THEN FALSE
    ELSE TRUE

----------------------------------------------------------------------------
(***************************************************************************)
(* Catalog: db/repository.py over the session of db/session.py.            *)
(***************************************************************************)
Row(id, collection, name, key, hash, size, status) ==
    [id |-> id, collection |-> collection, name |-> name, object_key |-> key,
     hash_sha256 |-> hash, size_bytes |-> size, status |-> status]

get_by_key(rows, key) == {r \in rows : r.object_key = key}

get_ready_by_collection_and_name(rows, collection, name) ==
    {r \in rows : r.collection = collection /\ r.name = name /\ r.status = READY}

\* variant: the listing without the status filter
list_by_collection_any_status(rows, collection) ==
    {r \in rows : r.collection = collection}

list_ready_by_collection(rows, collection) ==
    {r \in rows : r.collection = collection /\ r.status = READY}

\* DELETE FROM objects WHERE object_key = :key, inside the session's
\* transaction: the ids the statement removes
create_or_replace_delete(rows, key) == {r.id : r \in get_by_key(rows, key)}

\* variant: the DELETE takes effect for everyone at once (autocommit)
autocommit_view(rows, deleted_ids) == {r \in rows : r.id \notin deleted_ids}

\* what other sessions see of a transaction's DELETE before its commit
uncommitted_view(rows, deleted_ids) == rows

\* variant: object_key without the UNIQUE constraint
no_unique_constraint(rows, deleted_ids, key) == FALSE

\* UNIQUE(object_key): the insert is refused when a row this transaction
\* has not deleted carries the key
unique_violation(rows, deleted_ids, key) ==
    \E r \in rows : r.object_key = key /\ r.id \notin deleted_ids

\* variant: the statements of a failed transaction are committed
commit_on_error(rows, deleted_ids) == {r \in rows : r.id \notin deleted_ids}

\* session.rollback() when the body of get_session raised
rollback(rows, deleted_ids) == rows

\* session.commit() of the create_or_replace transaction
create_or_replace_commit(rows, deleted_ids, new_row) ==
    {r \in rows : r.id \notin deleted_ids} \cup {new_row}

\* UPDATE objects SET status = DELETED WHERE collection, name, status = READY:
\* the ids the statement touches
mark_deleted_match(rows, collection, name) ==
    {r.id : r \in get_ready_by_collection_and_name(rows, collection, name)}

\* session.commit() of the mark_deleted transaction
mark_deleted_commit(rows, ids) ==
    {IF r.id \in ids THEN [r EXCEPT !.status = DELETED] ELSE r : r \in rows}

\* CollectionRepository.get_or_create as the handler calls it
get_or_create(colls, name) == colls \cup {name}

----------------------------------------------------------------------------
(***************************************************************************)
(* Read endpoints of api/routes.py, as functions of the committed catalog  *)
(* and the bucket.                                                         *)
(***************************************************************************)
NotFound == "404"

list_objects(rows, collection) ==
    {r.name : r \in list_ready_by_collection(rows, collection)}

list_hashes(rows, collection) ==
    {<<r.name, r.hash_sha256>> : r \in list_ready_by_collection(rows, collection)}

get_object_hash(rows, collection, name) ==
    LET found == get_ready_by_collection_and_name(rows, collection, name)
    IN IF found = {} THEN {NotFound} ELSE {r.hash_sha256 : r \in found}

download_object(rows, bucket, collection, name) ==
    LET found == get_ready_by_collection_and_name(rows, collection, name)
    IN IF found = {} THEN {NotFound}
       ELSE {IF bucket[r.object_key] = Absent THEN NotFound
             ELSE <<bucket[r.object_key], r.size_bytes, r.hash_sha256>> : r \in found}

----------------------------------------------------------------------------
(***************************************************************************)
(* State of the components around the pipelines: the sync barrier of       *)
(* sync/state.py, the circuit breaker of minio_client/circuit_breaker.py,  *)
(* the limiter of api/auth.py.  The handler steps leave it alone.          *)
(***************************************************************************)
VARIABLES
    sync_fs,        \* collections root as the barrier lists it: path -> kind
    sync_catalog,   \* rows of table "objects" the barrier's session reads
    sync_progress,  \* keys of _files_in_progress while a barrier call runs
    wait            \* the wait_for_sync call: its locals and position

sync_vars == <<sync_fs, sync_catalog, sync_progress, wait>>

VARIABLES
    clock,          \* time.time() as breaker and limiter read it
    clock_ticks,    \* number of advances of that clock so far
    breaker,        \* minio_circuit_breaker: its four fields
    call,           \* history: the last guarded call and how it ended
    streak,         \* history: failed guarded calls since the last success
    gauge,          \* metrics.minio_circuit_breaker_state: its _value
    callers         \* callers past check_state that have not recorded yet

clock_vars == <<clock, clock_ticks>>
breaker_vars == <<breaker, call, streak, gauge, callers>>

VARIABLES
    limiter,        \* _auth_rate_limiter: _failures and _blocked_until
    awaiting,       \* requests awaiting repo.verify_api_key
    response,       \* history: the last answer of verify_collection_key
    fail_log,       \* history: failed verifications since the last success
    claimed_until   \* history: end of the block the failures call for

limiter_vars == <<limiter, awaiting, response, fail_log, claimed_until>>

VARIABLES
    lifespan,       \* the lifespan coroutine of api/app.py: position and scan
    watcher,        \* the CollectionWatcher of get_watcher(): its fields
    supervisor,     \* BackgroundTaskManager and its watcher_health task
    dispatch_log    \* history: events dispatched, requests served, probes

service_vars == <<lifespan, watcher, supervisor, dispatch_log>>

VARIABLES
    emitter         \* the PollingObserver: snapshot, queued events, history

\* what the handler steps, the barrier, the breaker and the limiter leave
\* alone besides each other
VARIABLES
    keyring,        \* one collection's .vault_key file and its catalog row
    health,         \* the last health request: probe results and answer
    tenants         \* _auth_rate_limiter under several clients' requests

aux_vars == <<keyring, health, tenants>>

outer_vars == <<service_vars, emitter, aux_vars>>

component_vars == <<sync_vars, clock_vars, breaker_vars, limiter_vars,
                    outer_vars>>

\* the barrier's clock counts quarter seconds: SYNC_POLL_INTERVAL = 0.5 s
SYNC_POLL_INTERVAL == 2

\* largest timeout (in quarter seconds) a barrier call is given
MaxSyncTimeout == 4

SyncCollections == {"alpha", "beta"}
SyncPaths == {<<"alpha", "a.csv">>, <<"alpha", ".vault_key">>}
SyncKinds == {Absent, "file", "dir"}
SyncInFlightPaths == {<<"alpha", "a.csv">>, <<"beta", "a.csv">>}
SyncRows ==
    {Row(1, "alpha", "a.csv", "alpha/a.csv", "", 0, READY),
     Row(1, "alpha", "a.csv", "alpha/a.csv", "", 0, DELETED),
     Row(2, "beta", "a.csv", "beta/a.csv", "", 0, READY)}

\* dataclass SyncState
SyncState(collection, is_synced, in_folder, in_db, processing, pending) ==
    [collection |-> collection, is_synced |-> is_synced,
     files_in_folder |-> in_folder, files_in_db |-> in_db,
     files_processing |-> processing, pending_files |-> pending]

NoState == SyncState("", FALSE, 0, 0, 0, {})

\* no wait_for_sync call is running
IdleWait ==
    [pc |-> "idle", collection |-> "", timeout |-> 0, elapsed |-> 0,
     sleeps |-> 0, snapshots |-> 0, state |-> NoState, outcome |-> "none"]

SyncInit ==
    /\ sync_fs = [p \in SyncPaths |-> Absent]
    /\ sync_catalog = {}
    /\ sync_progress = {}
    /\ wait = IdleWait

\* the epoch clock of a running system is positive
StartTime == 1

\* largest number of clock advances explored for breaker and limiter
MaxClockTicks == 4

ClockInit ==
    /\ clock = StartTime
    /\ clock_ticks = 0

CLOSED == "closed"
OPEN == "open"
HALF_OPEN == "half_open"
CircuitState == {CLOSED, OPEN, HALF_OPEN}

\* CircuitBreakerConfig of minio_circuit_breaker
failure_threshold == 5
success_threshold == 2
config_timeout == 30
excluded_exceptions == {}

\* CircuitBreaker.__init__
NewBreaker ==
    [state |-> CLOSED, failure_count |-> 0, success_count |-> 0,
     last_failure_time |-> NoTime]

\* no guarded call was made yet
NoCall ==
    [op |-> "none", result |-> "none", store_invoked |-> FALSE,
     time_remaining |-> 0, admitted_state |-> CLOSED, admitted_successes |-> 0,
     reported |-> "nothing"]

\* largest number of callers between check_state and their record call
MaxCallers == 2

\* Gauge.__init__ sets _value to 0.0; no caller has been admitted yet
BreakerInit ==
    /\ breaker = NewBreaker
    /\ call = NoCall
    /\ streak = 0
    /\ gauge = 0
    /\ callers = 0

\* RateLimitConfig of _auth_rate_limiter
max_failures == 5
window_seconds == 60
block_seconds == 300

\* number of clock steps taken while the limiter is exercised
MaxLimiterTicks == 3

\* largest number of requests awaiting their verification at once
MaxAwaiting == 2

ClientIps == {"10.0.0.1"}
GuardedCollections == {"alpha"}

\* f"{ip}:{collection}"
make_key(ip, collection) == ip \o ":" \o collection

LimiterKeys == {make_key(ip, c) : ip \in ClientIps, c \in GuardedCollections}

\* AuthRateLimiter.__init__: a key without an entry has no failures, no block
NewLimiter ==
    [failures |-> [k \in LimiterKeys |-> <<>>],
     blocked_until |-> [k \in LimiterKeys |-> NoTime]]

\* number of clock steps taken while several clients and collections
\* drive the limiter
MaxTenantTicks == 1

\* client addresses as get_client_ip returns them (the first entry of
\* X-Forwarded-For is taken as it is, a proxy may append the port) and
\* collection names as the route receives them
TenantIps == {"10.0.0.1", "10.0.0.1:9"}
TenantCollections == {"alpha", "9:alpha"}
TenantPairs == TenantIps \X TenantCollections
TenantKeys == {make_key(pr[1], pr[2]) : pr \in TenantPairs}

NewTenantLimiter ==
    [failures |-> [k \in TenantKeys |-> <<>>],
     blocked_until |-> [k \in TenantKeys |-> NoTime]]

TenantInit == tenants = NewTenantLimiter

\* no request was answered yet
NoResponse == [key |-> "", status |-> "none", verified |-> FALSE,
               retry_after |-> 0]

LimiterInit ==
    /\ limiter = NewLimiter
    /\ awaiting = EmptyBag
    /\ response = NoResponse
    /\ fail_log = [k \in LimiterKeys |-> <<>>]
    /\ claimed_until = [k \in LimiterKeys |-> NoTime]

\* the service around the pipelines: api/app.py, watcher/watcher.py,
\* monitoring/background.py
None == "None"

\* observer thread deaths followed in one behaviour
MaxRestarts == 2

\* advances of the clock while the service is followed
MaxServiceTicks == 2

\* files that may lie in the collection folders when the service boots
ScanFiles == {"alpha/a.csv", "alpha/b.csv"}

\* position of lifespan, the listing scan_existing_files iterates over
NewLifespan == [pc |-> "init_db", todo |-> {}, scan_done |-> FALSE]

\* CollectionWatcher.__init__
NewWatcher ==
    [observer |-> None, running |-> FALSE, last_event_time |-> NoTime,
     event_loop |-> None, restart_count |-> 0]

\* BackgroundTaskManager.__init__; the task is the watcher_health loop
NewTaskManager == [running |-> FALSE, task |-> None]

NoDispatch ==
    [during_scan |-> FALSE, last_time |-> NoTime, served |-> FALSE,
     probe |-> None]

\* events the observer has queued for the loop and not yet delivered
MaxEvents == 1
MaxWatchTicks == 1

NoEvent == [kind |-> None, path |-> <<>>, verdict |-> None]

\* PollingObserver started on the collections root as it is at Init
NewEmitter ==
    [snapshot |-> [p \in Paths |-> Absent], events |-> <<>>,
     delivered |-> NoEvent]

EmitterInit == emitter = NewEmitter

\* an optional value: None, or the value itself
Nothing == <<>>
Some(x) == <<x>>

\* texts are sequences of characters; what a .vault_key file may hold
KeyFileTexts == {<<"k", "1">>, <<"k", "2">>, <<"k", "1", "\n">>,
                 <<" ", "k", "2">>, <<"\n">>, <<>>}

\* what generate_api_key may return: secrets.token_hex yields hex digits
GeneratedKeys == {<<"a", "1">>, <<"b", "2">>}

NoKeyOp == [op |-> None, key_file |-> Nothing, row |-> Nothing, name |-> None]

NewKeyring == [key_file |-> Nothing, row |-> Nothing, last |-> NoKeyOp]

KeyInit == keyring = NewKeyring

NoHealth == [route |-> None, results |-> <<>>, status |-> None,
             critical_failures |-> <<>>, code |-> 0]

HealthInit == health = NoHealth

ServiceInit ==
    /\ lifespan = NewLifespan
    /\ watcher = NewWatcher
    /\ supervisor = NewTaskManager
    /\ dispatch_log = NoDispatch

Keys == {KeyOfPath(p) : p \in Paths}

Init ==
    /\ now = 0
    /\ ticks = 0
    /\ fs = [p \in Paths |-> Absent]
    /\ store = [k \in Keys |-> Absent]
    /\ collections = {}
    /\ catalog = {}
    /\ next_id = 1
    /\ in_flight = [p \in Paths |-> NoTime]
    /\ last_event = [p \in Paths |-> NoTime]
    /\ workers = {}
    /\ evicted = [p \in Paths |-> FALSE]
    /\ last_outcome = [p \in Paths |-> "none"]
    /\ last_dispatch = [p \in Paths |-> NoTime]
    /\ last_gate = [p \in Paths |-> "none"]
    /\ SyncInit
    /\ ClockInit
    /\ BreakerInit
    /\ LimiterInit
    /\ ServiceInit
    /\ EmitterInit
    /\ KeyInit
    /\ HealthInit
    /\ TenantInit

----------------------------------------------------------------------------
(***************************************************************************)
(* Handler coroutines.  A coroutine that passed its gate is a record; the  *)
(* pc names the statement it executes next.                                *)
(***************************************************************************)
IngestPcs == {"ensure", "hash", "upload", "create_or_replace", "commit"}
DeletePcs == {"mark_deleted", "commit"}

\* compute_file_hash and upload_file are blocking calls made with no await
\* between them: while a coroutine is there the event loop runs nothing else
SyncPcs == {"hash", "upload"}

NewWorker(kind, path, pc) ==
    [kind |-> kind, path |-> path, started |-> now, pc |-> pc,
     hash |-> "", size |-> 0, tx_ids |-> {}, row_id |-> 0]

IngestWorkers(p) == {w \in workers : w.kind = "ingest" /\ w.path = p}

\* the in-flight entry of the path is at least PROCESSING_TIMEOUT old
StaleEntry(p) ==
    in_flight[p] # NoTime /\ now - in_flight[p] >= PROCESSING_TIMEOUT

LoopIdle == \A v \in workers : v.pc \notin SyncPcs

Runnable(w) == \A v \in workers : v.pc \in SyncPcs => v = w

Replace(w, v) == (workers \ {w}) \cup {v}

\* variant: the slot is released on the success path only
finish_pipeline_on_success_only(inflight, path, outcome) ==
    IF outcome = "ok" THEN [inflight EXCEPT ![path] = NoTime] ELSE inflight

\* the finally clause of handle_file_created_or_modified
finish_pipeline(inflight, path, outcome) == [inflight EXCEPT ![path] = NoTime]

\* how a pipeline that raised exc ends
outcome_of(exc) == IF caught_by_worker(exc) THEN "failed" ELSE "escaped"

EndIngest(w, outcome) ==
    /\ workers' = workers \ {w}
    /\ in_flight' = finish_pipeline(in_flight, w.path, outcome)
    /\ last_outcome' = [last_outcome EXCEPT ![w.path] = outcome]

----------------------------------------------------------------------------
(***************************************************************************)
(* Environment: writers of the watched directory, and the clock.           *)
(***************************************************************************)
WriteFile(p, bytes) ==
    /\ fs[p] # bytes
    /\ fs' = [fs EXCEPT ![p] = bytes]
    /\ UNCHANGED <<now, ticks, store, collections, catalog, next_id, in_flight,
                   last_event, workers, evicted, last_outcome, last_dispatch, last_gate>>
    /\ UNCHANGED component_vars

RemoveFile(p) ==
    /\ fs[p] # Absent
    /\ fs' = [fs EXCEPT ![p] = Absent]
    /\ UNCHANGED <<now, ticks, store, collections, catalog, next_id, in_flight,
                   last_event, workers, evicted, last_outcome, last_dispatch, last_gate>>
    /\ UNCHANGED component_vars

Tick(d) ==
    /\ ticks < MaxTicks
    /\ now' = now + d
    /\ ticks' = ticks + 1
    /\ UNCHANGED <<fs, store, collections, catalog, next_id, in_flight,
                   last_event, workers, evicted, last_outcome, last_dispatch, last_gate>>
    /\ UNCHANGED component_vars

----------------------------------------------------------------------------
(***************************************************************************)
(* handle_file_created_or_modified, up to the end of the gate.             *)
(***************************************************************************)
GateCreatedOrModified(p) ==
    /\ LoopIdle
    /\ ~should_ignore(p[2])
    /\ fs[p] # Absent
    /\ parse_collection_path(p) # NoParse
    /\ LET g == gate_created_or_modified(in_flight[p], last_event[p], now)
       IN /\ g.dispatch => Cardinality(workers) < MaxWorkers
          /\ last_gate' = [last_gate EXCEPT ![p] = g.why]
          /\ last_dispatch' = [last_dispatch EXCEPT
                                  ![p] = IF g.dispatch THEN now ELSE @]
          /\ IF g.dispatch
             THEN /\ in_flight' = [in_flight EXCEPT ![p] = now]
                  /\ last_event' = [last_event EXCEPT ![p] = now]
                  /\ workers' = workers \cup {NewWorker("ingest", p, "ensure")}
             ELSE /\ in_flight' = [in_flight EXCEPT
                                     ![p] = IF g.evict THEN NoTime ELSE @]
                  /\ UNCHANGED <<last_event, workers>>
    /\ evicted' = [evicted EXCEPT
                     ![p] = @ \/ (StaleEntry(p) /\ in_flight'[p] # in_flight[p])]
    /\ UNCHANGED <<now, ticks, fs, store, collections, catalog, next_id,
                   last_outcome>>

\* a create or modify event of the path reaches its handler
CreatedOrModifiedEvent(p) ==
    /\ GateCreatedOrModified(p)
    /\ UNCHANGED component_vars

(***************************************************************************)
(* The ingestion pipeline, one action per suspension or blocking call.     *)
(***************************************************************************)
EnsureCollection(w) ==
    /\ w.kind = "ingest" /\ w.pc = "ensure"
    /\ Runnable(w)
    /\ collections' = get_or_create(collections, parse_collection_path(w.path)[1])
    /\ workers' = Replace(w, [w EXCEPT !.pc = "hash"])
    /\ UNCHANGED <<now, ticks, fs, store, catalog, next_id, in_flight,
                   last_event, evicted, last_outcome, last_dispatch, last_gate>>
    /\ UNCHANGED component_vars

ComputeHash(w) ==
    /\ w.kind = "ingest" /\ w.pc = "hash"
    /\ Runnable(w)
    /\ fs[w.path] # Absent
    /\ workers' = Replace(w, [w EXCEPT !.pc = "upload",
                                       !.hash = sha256(fs[w.path]),
                                       !.size = byte_length(fs[w.path])])
    /\ UNCHANGED <<now, ticks, fs, store, collections, catalog, next_id,
                   in_flight, last_event, evicted, last_outcome, last_dispatch, last_gate>>
    /\ UNCHANGED component_vars

UploadFile(w) ==
    /\ w.kind = "ingest" /\ w.pc = "upload"
    /\ Runnable(w)
    /\ fs[w.path] # Absent
    /\ store' = [store EXCEPT ![KeyOfPath(w.path)] = fs[w.path]]
    /\ workers' = Replace(w, [w EXCEPT !.pc = "create_or_replace"])
    /\ UNCHANGED <<now, ticks, fs, collections, catalog, next_id, in_flight,
                   last_event, evicted, last_outcome, last_dispatch, last_gate>>
    /\ UNCHANGED component_vars

\* ObjectRepository.create_or_replace: the DELETE and the flushed INSERT,
\* both inside the session's transaction
CreateOrReplace(w) ==
    /\ w.kind = "ingest" /\ w.pc = "create_or_replace"
    /\ Runnable(w)
    /\ next_id <= MaxId
    /\ LET ids == create_or_replace_delete(catalog, KeyOfPath(w.path))
       IN /\ ~unique_violation(catalog, ids, KeyOfPath(w.path))
          /\ workers' = Replace(w, [w EXCEPT !.pc = "commit", !.tx_ids = ids,
                                             !.row_id = next_id])
          /\ catalog' = uncommitted_view(catalog, ids)
    /\ next_id' = next_id + 1
    /\ UNCHANGED <<now, ticks, fs, store, collections, in_flight,
                   last_event, evicted, last_outcome, last_dispatch, last_gate>>
    /\ UNCHANGED component_vars

\* session.commit() at the exit of get_session
CreateOrReplaceCommit(w) ==
    /\ w.kind = "ingest" /\ w.pc = "commit"
    /\ Runnable(w)
    /\ ~unique_violation(catalog, w.tx_ids, KeyOfPath(w.path))
    /\ LET parsed == parse_collection_path(w.path)
           row == Row(w.row_id, parsed[1], parsed[2],
                      KeyOfPath(w.path), w.hash, w.size, READY)
       IN catalog' = create_or_replace_commit(catalog, w.tx_ids, row)
    /\ EndIngest(w, "ok")
    /\ UNCHANGED <<now, ticks, fs, store, collections, next_id, last_event,
                   evicted, last_dispatch, last_gate>>
    /\ UNCHANGED component_vars

\* any step of the pipeline raises: the collection upsert or a catalog
\* statement fails, the file cannot be read, the store or the breaker
\* refuses the put
IngestRaises(w, exc) ==
    /\ w.kind = "ingest"
    /\ exc \in raised_at(w.pc)
    /\ Runnable(w)
    /\ EndIngest(w, outcome_of(exc))
    /\ catalog' = rollback(catalog, w.tx_ids)
    /\ UNCHANGED <<now, ticks, fs, store, collections, next_id,
                   last_event, evicted, last_dispatch, last_gate>>
    /\ UNCHANGED component_vars

----------------------------------------------------------------------------
(***************************************************************************)
(* handle_file_deleted: the gate and delete_object run without an await    *)
(* between them; mark_deleted and the commit follow.                       *)
(***************************************************************************)
AcceptDeleted(p, store_ok) ==
    /\ LoopIdle
    /\ ~should_ignore(p[2])
    /\ parse_collection_path(p) # NoParse
    /\ fs[p] = Absent
    /\ gate_deleted(in_flight[p], last_event[p], now)
    /\ last_event' = [last_event EXCEPT ![p] = now]
    /\ IF store_ok
       THEN /\ Cardinality(workers) < MaxWorkers
            /\ store' = [store EXCEPT ![KeyOfPath(p)] = Absent]
            /\ workers' = workers \cup {NewWorker("delete", p, "mark_deleted")}
       ELSE UNCHANGED <<store, workers>>
    /\ UNCHANGED <<now, ticks, fs, collections, catalog, next_id, in_flight,
                   evicted, last_outcome, last_dispatch, last_gate>>

\* a delete event of a path that passes the gate of handle_file_deleted
DeletedEvent(p, store_ok) ==
    /\ AcceptDeleted(p, store_ok)
    /\ UNCHANGED component_vars

MarkDeleted(w) ==
    /\ w.kind = "delete" /\ w.pc = "mark_deleted"
    /\ Runnable(w)
    /\ LET parsed == parse_collection_path(w.path)
       IN workers' = Replace(w, [w EXCEPT
              !.pc = "commit",
              !.tx_ids = mark_deleted_match(catalog, parsed[1], parsed[2])])
    /\ UNCHANGED <<now, ticks, fs, store, collections, catalog, next_id,
                   in_flight, last_event, evicted, last_outcome, last_dispatch, last_gate>>
    /\ UNCHANGED component_vars

MarkDeletedCommit(w) ==
    /\ w.kind = "delete" /\ w.pc = "commit"
    /\ Runnable(w)
    /\ catalog' = mark_deleted_commit(catalog, w.tx_ids)
    /\ workers' = workers \ {w}
    /\ UNCHANGED <<now, ticks, fs, store, collections, next_id, in_flight,
                   last_event, evicted, last_outcome, last_dispatch, last_gate>>
    /\ UNCHANGED component_vars

\* a catalog statement of the deletion raises: logged, the coroutine returns
DeleteRaises(w) ==
    /\ w.kind = "delete"
    /\ Runnable(w)
    /\ workers' = workers \ {w}
    /\ UNCHANGED <<now, ticks, fs, store, collections, catalog, next_id,
                   in_flight, last_event, evicted, last_outcome, last_dispatch, last_gate>>
    /\ UNCHANGED component_vars

----------------------------------------------------------------------------
Next ==
    \/ \E p \in Paths, bytes \in Contents : WriteFile(p, bytes)
    \/ \E p \in Paths : RemoveFile(p)
    \/ \E d \in TickSteps : Tick(d)
    \/ \E p \in Paths : CreatedOrModifiedEvent(p)
    \/ \E w \in workers : EnsureCollection(w)
    \/ \E w \in workers : ComputeHash(w)
    \/ \E w \in workers : UploadFile(w)
    \/ \E w \in workers : CreateOrReplace(w)
    \/ \E w \in workers : CreateOrReplaceCommit(w)
    \/ \E w \in workers, exc \in ExceptionKinds : IngestRaises(w, exc)
    \/ \E p \in Paths, store_ok \in BOOLEAN : DeletedEvent(p, store_ok)
    \/ \E w \in workers : MarkDeleted(w)
    \/ \E w \in workers : MarkDeletedCommit(w)
    \/ \E w \in workers : DeleteRaises(w)

Spec == Init /\ [][Next]_vars

----------------------------------------------------------------------------
(***************************************************************************)
(* Properties.                                                             *)
(***************************************************************************)
RowsOfPath(p) == get_by_key(catalog, KeyOfPath(p))

\* the step dispatches a pipeline for p, entering at its first statement
Dispatched(p) ==
    \E w \in workers' \ workers :
        w.kind = "ingest" /\ w.path = p /\ w.pc = "ensure" /\ w.started = now

\* the step is the last one of the ingestion coroutine w
Ended(w) ==
    /\ w.kind = "ingest"
    /\ ~\E v \in workers' : v.kind = "ingest" /\ v.path = w.path
                            /\ v.started = w.started

\* C1 (as stated): at every instant at most one ingestion pipeline is
\* executing for each path, whatever the interleaving of events,
\* completions and stale-entry evictions.
C1_AtMostOnePipeline ==
    \A p \in Paths : Cardinality(IngestWorkers(p)) <= 1

\* C1 (amended): as long as no stale in-flight entry of a path has been
\* evicted, at most one ingestion pipeline is executing for the path and
\* the in-flight entry of the path is the registration of that pipeline.
C1_AtMostOnePipelineUntilEviction ==
    \A p \in Paths :
        ~evicted[p] =>
            /\ Cardinality(IngestWorkers(p)) <= 1
            /\ \A w \in IngestWorkers(p) : in_flight[p] = w.started
            /\ (IngestWorkers(p) = {} => in_flight[p] = NoTime)

\* C1 witness: a pipeline is executing, an event that arrived while it ran
\* has been dropped because of the in-flight entry, nothing was evicted
C1_Witness ==
    \E p \in Paths :
        /\ ~evicted[p]
        /\ last_gate[p] = "in_flight"
        /\ \E w \in IngestWorkers(p) : w.pc = "commit" /\ now > w.started

\* C2: the catalog holds at most one row, of any status, for each
\* object_key, after any interleaving of ingestions, re-ingestions and
\* deletions.
C2_UniqueObjectKey ==
    \A k \in Keys : Cardinality(get_by_key(catalog, k)) <= 1

\* C2 witness: a key that was ingested, re-ingested and then deleted
C2_Witness ==
    \E r \in catalog : r.id > 1 /\ r.status = DELETED

C5_ReplaceIsAtomicForReaders ==
    [][\A k \in Keys :
          LET before == get_by_key(catalog, k)
              after == get_by_key(catalog', k)
          IN before # {} =>
                /\ Cardinality(after) = 1
                /\ \/ after = before
                   \/ after = {[r EXCEPT !.status = DELETED] : r \in before}
                   \/ \A r \in after : r.status = READY
                                       /\ r.id \notin {b.id : b \in before}]_vars

\* C5 witness: a replace transaction is open on a key that has a row
C5_Witness ==
    \E w \in workers :
        /\ w.kind = "ingest" /\ w.pc = "commit" /\ w.tx_ids # {}
        /\ \E r \in RowsOfPath(w.path) : r.id \in w.tx_ids /\ r.status = READY

\* the four read endpoints surface READY rows only
ReadsShowReadyOnly ==
    \A c \in CollectionNames, n \in FileNames :
        LET ready == {r \in catalog : r.collection = c /\ r.name = n
                                      /\ r.status = READY}
        IN /\ n \in list_objects(catalog, c) <=> ready # {}
           /\ \A item \in list_hashes(catalog, c) :
                 item[1] = n => \E r \in ready : r.hash_sha256 = item[2]
           /\ ready = {} => /\ get_object_hash(catalog, c, n) = {NotFound}
                            /\ download_object(catalog, store, c, n) = {NotFound}

\* C6: the read endpoints return only objects whose row is READY; an object
\* whose row is DELETED is not listed and its lookup is a 404, and the
\* tombstoning step keeps the row in the catalog with status DELETED.
C6_ReadsOnlyReadyRows ==
    [][/\ ReadsShowReadyOnly'
       /\ \A w \in workers :
             (w.kind = "delete" /\ w.pc = "commit" /\ w \notin workers'
              /\ catalog' # catalog) =>
                \A r \in catalog :
                    r.id \in w.tx_ids => [r EXCEPT !.status = DELETED] \in catalog']_vars

\* C6 witness: a tombstone is in the catalog and no read endpoint shows it
C6_Witness ==
    \E r \in catalog :
        /\ r.status = DELETED
        /\ r.name \notin list_objects(catalog, r.collection)
        /\ get_object_hash(catalog, r.collection, r.name) = {NotFound}

C8_DebounceStartsOnePipeline ==
    [][\A p \in Paths :
          CreatedOrModifiedEvent(p) =>
             /\ (/\ in_flight[p] = NoTime
                 /\ (last_event[p] = NoTime
                     \/ now - last_event[p] >= DEBOUNCE_SECONDS))
                => Dispatched(p)
             /\ (last_dispatch[p] # NoTime
                 /\ now - last_dispatch[p] < DEBOUNCE_SECONDS)
                => (~Dispatched(p) /\ workers' = workers)]_vars

\* C8 witness: the first pipeline has ended and the second event, less
\* than DEBOUNCE_SECONDS after the first, was dropped by the debounce check
C8_Witness ==
    \E p \in Paths :
        /\ last_gate[p] = "debounce"
        /\ IngestWorkers(p) = {}
        /\ last_dispatch[p] # NoTime
        /\ now > last_dispatch[p]
        /\ now - last_dispatch[p] < DEBOUNCE_SECONDS

\* C9: when an ingestion pipeline ends, by success or by a failure of any
\* step, its path is no longer in in_flight, and the exception of a failed
\* step does not leave the coroutine.
C9_PipelineReleasesSlot ==
    [][\A w \in workers :
          Ended(w) => /\ in_flight'[w.path] = NoTime
                      /\ last_outcome'[w.path] \in {"ok", "failed"}]_vars

\* C9 witness: a pipeline failed after its upload and the slot is free
C9_Witness ==
    \E p \in Paths :
        /\ last_outcome[p] = "failed"
        /\ in_flight[p] = NoTime
        /\ store[KeyOfPath(p)] # Absent
        /\ RowsOfPath(p) = {}

\* C10 (as stated): after a pipeline of a path has failed, the next
\* create/modify event of the path is dispatched.
C10_EventAfterFailureDispatched ==
    [][\A p \in Paths :
          (CreatedOrModifiedEvent(p) /\ last_outcome[p] = "failed"
           /\ IngestWorkers(p) = {}) => Dispatched(p)]_vars

\* C10 (amended): after a pipeline of a path has failed and while no other
\* pipeline of the path is running, a create/modify event of the path is
\* dispatched and enters the pipeline at its first step iff it arrives at
\* least DEBOUNCE_SECONDS after the last accepted event of the path; an
\* earlier one is dropped by the debounce check.
C10_EventAfterFailureDispatchedAfterDebounce ==
    [][\A p \in Paths :
          (CreatedOrModifiedEvent(p) /\ last_outcome[p] = "failed"
           /\ IngestWorkers(p) = {}) =>
             (Dispatched(p) <=> now - last_event[p] >= DEBOUNCE_SECONDS)]_vars

\* C10 witness: the pipeline failed and a later event started it again
C10_Witness ==
    \E p \in Paths :
        /\ last_outcome[p] = "failed"
        /\ ~evicted[p]
        /\ last_gate[p] = "dispatched"
        /\ \E w \in IngestWorkers(p) : w.pc = "ensure" /\ w.started > 0

----------------------------------------------------------------------------
(***************************************************************************)
(* Sync barrier: sync/state.py.  Folder, catalog and in-flight registry    *)
(* change under the barrier while it polls.                                *)
(***************************************************************************)
FolderChanges(p, kind) ==
    /\ sync_fs[p] # kind
    /\ sync_fs' = [sync_fs EXCEPT ![p] = kind]
    /\ UNCHANGED <<sync_catalog, sync_progress, wait>>
    /\ UNCHANGED <<vars, clock_vars, breaker_vars, limiter_vars, outer_vars>>

\* a handler transaction commits: the row of the key is written or replaced
CatalogChanges(r) ==
    /\ r \notin sync_catalog
    /\ sync_catalog' = (sync_catalog \ get_by_key(sync_catalog, r.object_key)) \cup {r}
    /\ UNCHANGED <<sync_fs, sync_progress, wait>>
    /\ UNCHANGED <<vars, clock_vars, breaker_vars, limiter_vars, outer_vars>>

\* a pipeline of the path passes its gate, or ends
ProgressChanges(p) ==
    /\ sync_progress' = IF p \in sync_progress THEN sync_progress \ {p}
                        ELSE sync_progress \cup {p}
    /\ UNCHANGED <<sync_fs, sync_catalog, wait>>
    /\ UNCHANGED <<vars, clock_vars, breaker_vars, limiter_vars, outer_vars>>

\* collection_path.iterdir(); a folder that does not exist lists nothing
iterdir(fsys, collection) ==
    {p \in DOMAIN fsys : Len(p) = 2 /\ p[1] = collection /\ fsys[p] # Absent}

get_folder_files(fsys, collection) ==
    {p[2] : p \in {q \in iterdir(fsys, collection) :
                       fsys[q] = "file" /\ ~should_ignore(q[2])}}

\* path_str.startswith(str(collection_path) + "/")
startswith_collection_prefix(path, collection) ==
    Len(path) > 1 /\ path[1] = collection

get_processing_files_for_collection(progress, collection) ==
    {p[Len(p)] : p \in {q \in progress :
                            startswith_collection_prefix(q, collection)}}

\* variant: a collection with pipelines in flight counts as synced
get_sync_state_blind_to_processing(fsys, rows, progress, collection) ==
    LET folder_files == get_folder_files(fsys, collection)
        processing_files == get_processing_files_for_collection(progress, collection)
        db_files == {r.name : r \in list_ready_by_collection(rows, collection)}
        pending_files == (folder_files \ db_files) \ processing_files
    IN SyncState(collection, Cardinality(pending_files) = 0,
                 Cardinality(folder_files), Cardinality(db_files),
                 Cardinality(processing_files), pending_files)

get_sync_state(fsys, rows, progress, collection) ==
    LET folder_files == get_folder_files(fsys, collection)
        processing_files == get_processing_files_for_collection(progress, collection)
        db_files == {r.name : r \in list_ready_by_collection(rows, collection)}
        pending_files == (folder_files \ db_files) \ processing_files
        is_synced == Cardinality(processing_files) = 0
                     /\ Cardinality(pending_files) = 0
    IN SyncState(collection, is_synced,
                 Cardinality(folder_files), Cardinality(db_files),
                 Cardinality(processing_files), pending_files)

\* variant: the loop runs through the deadline itself
keeps_polling_at_deadline(elapsed, timeout) == elapsed <= timeout

\* while elapsed < timeout
keeps_polling(elapsed, timeout) == elapsed < timeout

SyncTimeouts == 0 .. MaxSyncTimeout

CallWaitForSync(c, timeout) ==
    /\ wait.pc \in {"idle", "returned"}
    /\ wait' = [IdleWait EXCEPT !.pc = "loop", !.collection = c,
                                !.timeout = timeout]
    /\ UNCHANGED <<sync_fs, sync_catalog, sync_progress>>
    /\ UNCHANGED <<vars, clock_vars, breaker_vars, limiter_vars, outer_vars>>

\* one turn of the loop up to the sleep: snapshot, return if synced
Poll ==
    /\ wait.pc = "loop"
    /\ keeps_polling(wait.elapsed, wait.timeout)
    /\ LET state == get_sync_state(sync_fs, sync_catalog, sync_progress,
                                   wait.collection)
       IN wait' = [wait EXCEPT
              !.state = state,
              !.snapshots = @ + 1,
              !.pc = IF state.is_synced THEN "returned" ELSE "sleep",
              !.outcome = IF state.is_synced THEN "SyncState" ELSE @]
    /\ UNCHANGED <<sync_fs, sync_catalog, sync_progress>>
    /\ UNCHANGED <<vars, clock_vars, breaker_vars, limiter_vars, outer_vars>>

\* await asyncio.sleep(poll_interval); elapsed += poll_interval
Sleep ==
    /\ wait.pc = "sleep"
    /\ wait' = [wait EXCEPT !.elapsed = @ + SYNC_POLL_INTERVAL,
                            !.sleeps = @ + 1,
                            !.pc = "loop"]
    /\ UNCHANGED <<sync_fs, sync_catalog, sync_progress>>
    /\ UNCHANGED <<vars, clock_vars, breaker_vars, limiter_vars, outer_vars>>

\* the loop ran out: the final snapshot is returned whatever it says
FinalSnapshot ==
    /\ wait.pc = "loop"
    /\ ~keeps_polling(wait.elapsed, wait.timeout)
    /\ wait' = [wait EXCEPT
           !.state = get_sync_state(sync_fs, sync_catalog, sync_progress,
                                    wait.collection),
           !.snapshots = @ + 1,
           !.pc = "returned",
           !.outcome = "SyncState"]
    /\ UNCHANGED <<sync_fs, sync_catalog, sync_progress>>
    /\ UNCHANGED <<vars, clock_vars, breaker_vars, limiter_vars, outer_vars>>

WaitStep == Poll \/ Sleep \/ FinalSnapshot

SyncNext ==
    \/ \E p \in SyncPaths, kind \in SyncKinds : FolderChanges(p, kind)
    \/ \E r \in SyncRows : CatalogChanges(r)
    \/ \E p \in SyncInFlightPaths : ProgressChanges(p)
    \/ \E c \in SyncCollections, timeout \in SyncTimeouts : CallWaitForSync(c, timeout)
    \/ Poll
    \/ Sleep
    \/ FinalSnapshot

SyncSpec == Init /\ [][SyncNext]_sync_vars

\* the event loop resumes a waiting coroutine: a call in progress is not
\* starved by the changes around it
SyncFairSpec == SyncSpec /\ WF_sync_vars(WaitStep)

----------------------------------------------------------------------------
(***************************************************************************)
(* Properties of the sync barrier.                                         *)
(***************************************************************************)
\* the step takes a snapshot of the collection
SnapshotTaken == wait'.snapshots = wait.snapshots + 1

\* an in-flight path lies under the collection
InFlightUnder(c) == {p \in sync_progress : p[1] = c}

\* names of the non-ignored regular files in the collection's folder
RegularFilesOf(c) ==
    {p[2] : p \in {q \in SyncPaths :
                       q[1] = c /\ sync_fs[q] = "file" /\ ~should_ignore(q[2])}}

HasReadyRow(c, n) ==
    \E r \in sync_catalog : r.collection = c /\ r.name = n /\ r.status = READY

\* C11: every snapshot get_sync_state / wait_for_sync takes has is_synced
\* true if and only if no in-flight path lies under the collection and every
\* non-ignored regular file of the collection's folder has a READY row, and
\* its pending_files are the folder's files without a READY row that are
\* not in flight.
C11_SnapshotTellsSynced ==
    [][SnapshotTaken =>
          LET c == wait'.collection
              s == wait'.state
          IN /\ s.is_synced <=>
                    /\ InFlightUnder(c) = {}
                    /\ \A n \in RegularFilesOf(c) : HasReadyRow(c, n)
             /\ s.pending_files =
                    {n \in RegularFilesOf(c) :
                        /\ ~HasReadyRow(c, n)
                        /\ \A p \in InFlightUnder(c) : p[2] # n}]_sync_vars

\* a synced snapshot of a folder holding a catalogued file and an ignored
\* one, while another collection has a pipeline in flight
C11_Witness ==
    /\ wait.pc = "returned"
    /\ wait.collection = "alpha"
    /\ wait.state.is_synced
    /\ wait.state.files_in_folder = 1
    /\ sync_fs[<<"alpha", "a.csv">>] = "file"
    /\ sync_fs[<<"alpha", ".vault_key">>] = "file"
    /\ <<"beta", "a.csv">> \in sync_progress
    /\ <<"alpha", "a.csv">> \notin sync_progress
    /\ HasReadyRow("alpha", "a.csv")

\* ceil(a / b) for b > 0
CeilDiv(a, b) == (a + b - 1) \div b

\* C12: a wait_for_sync call returns a SyncState: at once when a poll finds
\* the collection synced, otherwise the final snapshot after at most
\* ceil(timeout / poll_interval) sleeps; the elapsed timeout raises nothing,
\* and a call with timeout 0 takes exactly one snapshot and does not sleep.
C12_WaitReturnsSnapshot ==
    /\ [](wait.sleeps <= CeilDiv(wait.timeout, SYNC_POLL_INTERVAL))
    /\ [](wait.pc = "returned" =>
              /\ wait.outcome = "SyncState"
              /\ wait.state.collection = wait.collection
              /\ wait.snapshots >= 1
              /\ (wait.timeout = 0 => wait.snapshots = 1 /\ wait.sleeps = 0))
    /\ [][SnapshotTaken /\ wait'.state.is_synced
              => wait'.pc = "returned"]_sync_vars
    /\ (wait.pc # "idle" ~> wait.pc = "returned")

\* a call that slept through its whole timeout returned an unsynced snapshot
C12_Witness ==
    /\ wait.pc = "returned"
    /\ wait.timeout = MaxSyncTimeout - 1
    /\ wait.sleeps = CeilDiv(wait.timeout, SYNC_POLL_INTERVAL)
    /\ wait.snapshots = wait.sleeps + 1
    /\ ~wait.state.is_synced

----------------------------------------------------------------------------
(***************************************************************************)
(* Circuit breaker: minio_client/circuit_breaker.py, and the guarded calls *)
(* of minio_client/client.py.  A breaker is the record of its four fields; *)
(* every method is a function of the breaker and the time it reads.        *)
(***************************************************************************)
\* variant: the cooldown must be exceeded, not just reached
reset_after_timeout_exceeded(b, t) ==
    IF b.last_failure_time = NoTime THEN TRUE
    ELSE t - b.last_failure_time > config_timeout

should_attempt_reset(b, t) ==
    IF b.last_failure_time = NoTime THEN TRUE
    ELSE t - b.last_failure_time >= config_timeout

\* variant: entering CLOSED keeps the counters
transition_to_keeping_counts(b, state) ==
    IF b.state = state THEN b
    ELSE IF state = HALF_OPEN
         THEN [b EXCEPT !.state = state, !.success_count = 0]
    ELSE [b EXCEPT !.state = state]

transition_to(b, state) ==
    IF b.state = state THEN b
    ELSE IF state = CLOSED
         THEN [b EXCEPT !.state = state, !.failure_count = 0, !.success_count = 0]
    ELSE IF state = HALF_OPEN
         THEN [b EXCEPT !.state = state, !.success_count = 0]
    ELSE [b EXCEPT !.state = state]

\* property CircuitBreaker.state: reading it may move OPEN to HALF_OPEN
state_read(b, t) ==
    IF b.state = OPEN /\ should_attempt_reset(b, t)
    THEN transition_to(b, HALF_OPEN)
    ELSE b

record_success(b) ==
    IF b.state = HALF_OPEN
    THEN LET counted == [b EXCEPT !.success_count = @ + 1]
         IN IF counted.success_count >= success_threshold
            THEN transition_to(counted, CLOSED)
            ELSE counted
    ELSE IF b.state = CLOSED THEN [b EXCEPT !.failure_count = 0]
    ELSE b

\* variant: a failure opens the breaker only at the threshold of CLOSED
record_failure_without_probe_rule(b, t) ==
    LET counted == [b EXCEPT !.failure_count = @ + 1, !.last_failure_time = t]
    IN IF counted.state = CLOSED /\ counted.failure_count >= failure_threshold
       THEN transition_to(counted, OPEN)
       ELSE counted

record_failure(b, t) ==
    LET counted == [b EXCEPT !.failure_count = @ + 1, !.last_failure_time = t]
    IN IF counted.state = HALF_OPEN THEN transition_to(counted, OPEN)
       ELSE IF counted.state = CLOSED /\ counted.failure_count >= failure_threshold
            THEN transition_to(counted, OPEN)
       ELSE counted

Max(a, b) == IF a >= b THEN a ELSE b

\* "if self._last_failure_time:" is false for None and for 0.0
truthy(time) == time # NoTime /\ time # 0

\* check_state: the breaker after the read of its state, whether
\* CircuitBreakerError is raised, and the time_remaining it carries
check_state(b, t) ==
    LET current == state_read(b, t)
    IN IF current.state = OPEN
       THEN [breaker |-> current, raised |-> TRUE,
             time_remaining |->
                 IF truthy(current.last_failure_time)
                 THEN Max(0, config_timeout - (t - current.last_failure_time))
                 ELSE 0]
       ELSE [breaker |-> current, raised |-> FALSE, time_remaining |-> 0]

\* what the store client does with a request it is handed
S3ErrorCodes == {"S3Error:NoSuchKey", "S3Error:InternalError"}
StoreErrors == S3ErrorCodes \cup {"MaxRetryError"}
PutOutcomes == {"ok", "S3Error:InternalError", "MaxRetryError", "OSError"}
DeleteOutcomes == {"ok"} \cup StoreErrors

\* how a guarded call ends: the breaker it leaves, what it returns or
\* raises, whether the store client was invoked, what check_state answered
\* at its entry and what the call reported to the breaker
call_end(checked, b, result, store_invoked, reported) ==
    [breaker |-> b, result |-> result, store_invoked |-> store_invoked,
     reported |-> reported,
     time_remaining |-> checked.time_remaining,
     admitted_state |-> checked.breaker.state,
     admitted_successes |-> checked.breaker.success_count]

\* the handlers of upload_file and delete_object read is_open for a gauge
\* after record_failure
failure_recorded(b, t) == state_read(record_failure(b, t), t)

upload_file(b, t, outcome) ==
    LET checked == check_state(b, t)
    IN IF checked.raised
       THEN call_end(checked, checked.breaker, "CircuitBreakerError", FALSE,
                     "nothing")
       ELSE IF outcome = "ok"
            THEN call_end(checked, record_success(checked.breaker), "None", TRUE,
                          "success")
       ELSE call_end(checked, failure_recorded(checked.breaker, t), outcome,
                     TRUE, "failure")

\* variant: every S3Error of a delete counts as a failure, NoSuchKey too
delete_object_not_found_fails(b, t, outcome) ==
    LET checked == check_state(b, t)
    IN IF checked.raised
       THEN call_end(checked, checked.breaker, "CircuitBreakerError", FALSE,
                     "nothing")
       ELSE IF outcome = "ok"
            THEN call_end(checked, record_success(checked.breaker), "True", TRUE,
                          "success")
       ELSE IF outcome \in S3ErrorCodes
            THEN call_end(checked, failure_recorded(checked.breaker, t),
                          outcome, TRUE, "failure")
       ELSE call_end(checked, checked.breaker, outcome, TRUE, "nothing")

delete_object(b, t, outcome) ==
    LET checked == check_state(b, t)
    IN IF checked.raised
       THEN call_end(checked, checked.breaker, "CircuitBreakerError", FALSE,
                     "nothing")
       ELSE IF outcome = "ok"
            THEN call_end(checked, record_success(checked.breaker), "True", TRUE,
                          "success")
       ELSE IF outcome \in S3ErrorCodes
            THEN IF outcome = "S3Error:NoSuchKey"
                 THEN call_end(checked, checked.breaker, "False", TRUE, "nothing")
                 ELSE call_end(checked, failure_recorded(checked.breaker, t),
                               outcome, TRUE, "failure")
       ELSE call_end(checked, checked.breaker, outcome, TRUE, "nothing")

\* variant: check_state inside the try, so that its error is handled
\* like an error of the wrapped function
protected_with_check_inside_try(b, t, outcome) ==
    LET checked == check_state(b, t)
    IN IF checked.raised
       THEN call_end(checked, record_failure(checked.breaker, t),
                     "CircuitBreakerError", FALSE, "failure")
       ELSE IF outcome = "ok"
            THEN call_end(checked, record_success(checked.breaker), "None", TRUE,
                          "success")
       ELSE call_end(checked, record_failure(checked.breaker, t), outcome,
                     TRUE, "failure")

\* wrapper of circuit_breaker_protected around a function of the store
circuit_breaker_protected(b, t, outcome) ==
    LET checked == check_state(b, t)
    IN IF checked.raised
       THEN call_end(checked, checked.breaker, "CircuitBreakerError", FALSE,
                     "nothing")
       ELSE IF outcome = "ok"
            THEN call_end(checked, record_success(checked.breaker), "None", TRUE,
                          "success")
       ELSE IF outcome \in excluded_exceptions
            THEN call_end(checked, checked.breaker, outcome, TRUE, "nothing")
       ELSE call_end(checked, record_failure(checked.breaker, t), outcome,
                     TRUE, "failure")


\* the pipeline variables a guarded call does not touch
unguarded_vars == <<now, ticks, fs, collections, in_flight, last_event,
                    workers, evicted, last_outcome, last_dispatch, last_gate>>

BreakerTickSteps == {1, config_timeout - 1}

BreakerTick(d) ==
    /\ clock_ticks < MaxClockTicks
    /\ clock' = clock + d
    /\ clock_ticks' = clock_ticks + 1
    /\ UNCHANGED <<vars, sync_vars, breaker_vars, limiter_vars, outer_vars>>

\* failed guarded calls in a row: a success ends the row, a rejected call
\* and a key that was not there neither end nor extend it
next_streak(s, ended) ==
    IF ~ended.store_invoked \/ ended.result = "False" THEN s
    ELSE IF ended.result \in {"None", "True"} THEN 0
    ELSE IF s < failure_threshold THEN s + 1
    ELSE s

Called(op, ended) ==
    /\ breaker' = ended.breaker
    /\ call' = [op |-> op, result |-> ended.result,
                store_invoked |-> ended.store_invoked,
                time_remaining |-> ended.time_remaining,
                admitted_state |-> ended.admitted_state,
                admitted_successes |-> ended.admitted_successes,
                reported |-> ended.reported]
    /\ streak' = next_streak(streak, ended)

\* minio_circuit_breaker_state.set(1 if is_open else 0): the except
\* branches that record a failure are the only places that set the gauge
gauge_after(g, ended) ==
    IF ended.reported = "failure"
    THEN IF ended.breaker.state = OPEN THEN 1 ELSE 0
    ELSE g

\* handle_file_created_or_modified from upload_file on, run to its end
GuardedIngest(p, outcome) ==
    /\ next_id <= MaxId
    /\ LET key == KeyOfPath(p)
           ended == upload_file(breaker, clock, outcome)
       IN /\ Called("upload_file", ended)
          /\ gauge' = gauge_after(gauge, ended)
          /\ IF ended.result = "None"
             THEN /\ store' = [store EXCEPT ![key] = "hello"]
                  /\ catalog' = create_or_replace_commit(
                         catalog, create_or_replace_delete(catalog, key),
                         Row(next_id, p[1], p[2], key, sha256("hello"),
                             byte_length("hello"), READY))
                  /\ next_id' = next_id + 1
             ELSE UNCHANGED <<store, catalog, next_id>>
    /\ UNCHANGED <<unguarded_vars, callers, sync_vars, clock_vars,
                   limiter_vars, outer_vars>>

\* handle_file_deleted from delete_object on, run to its end; the store
\* answers a delete of a key it does not hold with NoSuchKey; the catalog
\* transaction that follows commits (db_ok) or raises and is rolled back
GuardedDeletion(p, outcome, db_ok) ==
    /\ outcome = "ok" => store[KeyOfPath(p)] # Absent
    /\ outcome = "S3Error:NoSuchKey" => store[KeyOfPath(p)] = Absent
    /\ LET ended == delete_object(breaker, clock, outcome)
           ids == mark_deleted_match(catalog, p[1], p[2])
       IN /\ Called("delete_object", ended)
          /\ gauge' = gauge_after(gauge, ended)
          /\ IF ended.result \in {"True", "False"}
             THEN /\ store' = [store EXCEPT ![KeyOfPath(p)] = Absent]
                  /\ catalog' = IF db_ok THEN mark_deleted_commit(catalog, ids)
                                ELSE rollback(catalog, ids)
             ELSE /\ db_ok
                  /\ UNCHANGED <<store, catalog>>
    /\ UNCHANGED <<unguarded_vars, next_id, callers, sync_vars, clock_vars,
                   limiter_vars, outer_vars>>

\* a call of a function wrapped by circuit_breaker_protected
ProtectedCall(outcome) ==
    /\ Called("protected", circuit_breaker_protected(breaker, clock, outcome))
    /\ UNCHANGED <<gauge, callers>>
    /\ UNCHANGED <<vars, sync_vars, clock_vars, limiter_vars, outer_vars>>

BreakerNext ==
    \/ \E d \in BreakerTickSteps : BreakerTick(d)
    \/ \E p \in Paths, outcome \in PutOutcomes : GuardedIngest(p, outcome)
    \/ \E p \in Paths, outcome \in DeleteOutcomes, db_ok \in BOOLEAN :
           GuardedDeletion(p, outcome, db_ok)
    \/ \E outcome \in PutOutcomes : ProtectedCall(outcome)

BreakerSpec == Init /\ [][BreakerNext]_<<vars, clock_vars, breaker_vars>>

----------------------------------------------------------------------------
(***************************************************************************)
(* Properties of the circuit breaker.                                      *)
(***************************************************************************)
\* the step is a guarded call: a put, a delete or a wrapped function
GuardedCall ==
    \/ \E p \in Paths, outcome \in PutOutcomes : GuardedIngest(p, outcome)
    \/ \E p \in Paths, outcome \in DeleteOutcomes, db_ok \in BOOLEAN :
           GuardedDeletion(p, outcome, db_ok)
    \/ \E outcome \in PutOutcomes : ProtectedCall(outcome)

Rejected(c) == c.result = "CircuitBreakerError"

CooldownElapsed == clock - breaker.last_failure_time >= config_timeout

\* C13: once failure_threshold guarded calls in a row have failed with no
\* success between them the breaker is no longer CLOSED: it opened, and a
\* put or delete issued while it is OPEN before the cooldown has elapsed
\* raises CircuitBreakerError without invoking the store; the breaker leaves
\* CLOSED for OPEN only on the failure that completes such a row.
C13_ThresholdFailuresOpen ==
    /\ [](streak >= failure_threshold => breaker.state # CLOSED)
    /\ [][/\ (breaker.state = CLOSED /\ streak' >= failure_threshold
                  => breaker'.state = OPEN)
          /\ (breaker.state = OPEN /\ ~CooldownElapsed /\ GuardedCall
                  => Rejected(call') /\ ~call'.store_invoked)
          /\ (breaker.state = CLOSED /\ breaker'.state = OPEN
                  => streak' >= failure_threshold)
         ]_<<vars, clock_vars, breaker_vars>>


\* the store client was invoked and raised something other than not-found
FailedCall(c) == c.store_invoked /\ c.result \notin {"None", "True", "False"}

StoreCall ==
    \/ \E p \in Paths, outcome \in PutOutcomes : GuardedIngest(p, outcome)
    \/ \E p \in Paths, outcome \in DeleteOutcomes, db_ok \in BOOLEAN :
           GuardedDeletion(p, outcome, db_ok)

\* C18: every put or delete that the store client fails with anything but
\* not-found is recorded by the breaker: the failure count goes up by one
\* and last_failure_time is stamped, whatever kind of error was raised.
C18_EveryStoreFailureRecorded ==
    [][FailedCall(call') /\ StoreCall
          => /\ breaker'.failure_count = breaker.failure_count + 1
             /\ breaker'.last_failure_time = clock
      ]_<<vars, clock_vars, breaker_vars>>


\* C14: a guarded call made while the breaker is OPEN is rejected when
\* now - last_failure < cooldown, with time_remaining = cooldown -
\* (now - last_failure) >= 0 and the store not invoked; made when
\* now - last_failure >= cooldown it moves the breaker to HALF_OPEN with the
\* success count at 0 and is passed through to the store.
C14_OpenRejectsUntilCooldown ==
    [][breaker.state = OPEN /\ GuardedCall
          => IF ~CooldownElapsed
             THEN /\ Rejected(call')
                  /\ ~call'.store_invoked
                  /\ call'.time_remaining =
                         config_timeout - (clock - breaker.last_failure_time)
                  /\ call'.time_remaining >= 0
             ELSE /\ ~Rejected(call')
                  /\ call'.store_invoked
                  /\ call'.admitted_state = HALF_OPEN
                  /\ call'.admitted_successes = 0
      ]_<<vars, clock_vars, breaker_vars>>

\* a delete of an absent key was passed through to the store at the very
\* second the cooldown ended, and left the breaker HALF_OPEN
C14_Witness ==
    /\ call.op = "delete_object"
    /\ call.result = "False"
    /\ call.admitted_state = HALF_OPEN
    /\ breaker.state = HALF_OPEN
    /\ breaker.success_count = 0
    /\ clock - breaker.last_failure_time = config_timeout


\* C15: of the calls admitted in HALF_OPEN, each one that reports a success
\* raises the success count by one, and the breaker goes to CLOSED with
\* failure and success counts at 0 exactly when the count reaches
\* success_threshold; each one that reports a failure sends the breaker
\* back to OPEN with last_failure restamped, so that the whole cooldown
\* lies ahead again.
C15_HalfOpenProbes ==
    [][call'.admitted_state = HALF_OPEN /\ GuardedCall
          => /\ call'.reported = "success"
                 => IF call'.admitted_successes + 1 = success_threshold
                    THEN /\ breaker'.state = CLOSED
                         /\ breaker'.failure_count = 0
                         /\ breaker'.success_count = 0
                    ELSE /\ breaker'.state = HALF_OPEN
                         /\ breaker'.success_count = call'.admitted_successes + 1
                         /\ breaker'.success_count < success_threshold
             /\ call'.reported = "failure"
                 => /\ breaker'.state = OPEN
                    /\ breaker'.last_failure_time = clock
                    /\ ~should_attempt_reset(breaker', clock)
      ]_<<vars, clock_vars, breaker_vars>>

\* a probe failed after an earlier probe had succeeded: OPEN again
C15_Witness ==
    /\ call.admitted_state = HALF_OPEN
    /\ call.admitted_successes = 1
    /\ call.reported = "failure"
    /\ breaker.state = OPEN
    /\ breaker.last_failure_time = clock


\* C16: a guarded call that check_state rejects leaves failure_count,
\* success_count, last_failure_time and the state of the breaker as they
\* were and reports nothing to it, whether the call is upload_file,
\* delete_object or a function wrapped by circuit_breaker_protected.
C16_RejectionNotRecorded ==
    [][Rejected(call') /\ GuardedCall
          => /\ breaker' = breaker
             /\ call'.reported = "nothing"
             /\ ~call'.store_invoked
      ]_<<vars, clock_vars, breaker_vars>>

\* a wrapped call was rejected by the breaker that the threshold had opened
C16_Witness ==
    /\ call.op = "protected"
    /\ Rejected(call)
    /\ call.time_remaining > 0
    /\ breaker.state = OPEN
    /\ breaker.failure_count = failure_threshold


\* the store is asked to delete a key it does not hold, and the catalog
\* transaction of the deletion worker commits
AbsentKeyDeleted(p) ==
    /\ GuardedDeletion(p, "S3Error:NoSuchKey", TRUE)
    /\ call'.store_invoked

Tombstoned(rows, p) ==
    get_ready_by_collection_and_name(rows, p[1], p[2]) = {}

\* C17: a delete of a key the store does not hold returns false and raises
\* nothing, leaves failure count and state of the breaker unchanged, and
\* the deletion worker tombstones the catalog row.
C17_AbsentKeyDeleteLeavesBreaker ==
    [][\A p \in Paths : AbsentKeyDeleted(p)
          => /\ call'.result = "False"
             /\ breaker'.failure_count = breaker.failure_count
             /\ breaker'.state = breaker.state
             /\ Tombstoned(catalog', p)
      ]_<<vars, clock_vars, breaker_vars>>

\* C17 (amended): a delete of a key the store does not hold returns false
\* and raises nothing and reports neither failure nor success: failure
\* count and last_failure_time are unchanged, and the state is the one the
\* call was admitted in, which is HALF_OPEN with the success count at 0
\* when the breaker was OPEN and the cooldown had elapsed, and the state
\* before the call otherwise; the deletion worker tombstones the row.
C17_AbsentKeyDeleteNotRecorded ==
    [][\A p \in Paths : AbsentKeyDeleted(p)
          => /\ call'.result = "False"
             /\ call'.reported = "nothing"
             /\ breaker'.failure_count = breaker.failure_count
             /\ breaker'.last_failure_time = breaker.last_failure_time
             /\ IF breaker.state = OPEN
                THEN /\ CooldownElapsed
                     /\ breaker'.state = HALF_OPEN
                     /\ breaker'.success_count = 0
                ELSE breaker' = breaker
             /\ Tombstoned(catalog', p)
      ]_<<vars, clock_vars, breaker_vars>>

\* an absent key was deleted while the breaker was probing: the breaker
\* stays HALF_OPEN with nothing counted, and the row is a tombstone
C17_Witness ==
    /\ call.op = "delete_object"
    /\ call.result = "False"
    /\ call.admitted_state = HALF_OPEN
    /\ call.admitted_successes = 1
    /\ breaker.state = HALF_OPEN
    /\ breaker.success_count = 1
    /\ \E r \in catalog : r.status = DELETED
    /\ \A p \in Paths : Tombstoned(catalog, p) /\ store[KeyOfPath(p)] = Absent

----------------------------------------------------------------------------
(***************************************************************************)
(* Auth limiter: api/auth.py.  The limiter is the record of its two        *)
(* dictionaries; a request is answered at the gate (is_blocked) or, after  *)
(* the await of repo.verify_api_key, by what the verification returned.    *)
(***************************************************************************)
\* variant: failures are kept however old they are
keep_all_failures(times, t) == times

\* _cleanup_old_failures: [t for t in failures if t > cutoff]
cleanup_old_failures(times, t) ==
    SelectSeq(times, LAMBDA x : x > t - window_seconds)

\* is_blocked: the limiter it leaves, the verdict and the seconds remaining
is_blocked(lim, key, t) ==
    IF lim.blocked_until[key] # NoTime
    THEN LET remaining == lim.blocked_until[key] - t
         IN IF remaining > 0
            THEN [limiter |-> lim, blocked |-> TRUE, remaining |-> remaining]
            ELSE [limiter |-> [lim EXCEPT !.blocked_until[key] = NoTime,
                                          !.failures[key] = <<>>],
                  blocked |-> FALSE, remaining |-> 0]
    ELSE [limiter |-> lim, blocked |-> FALSE, remaining |-> 0]

\* AuthRateLimiter.record_failure: the limiter it leaves, and whether the
\* key is now blocked
limiter_record_failure(lim, key, t) ==
    LET retained == Append(cleanup_old_failures(lim.failures[key], t), t)
    IN IF Len(retained) >= max_failures
       THEN [limiter |-> [lim EXCEPT !.failures[key] = retained,
                                     !.blocked_until[key] = t + block_seconds],
             now_blocked |-> TRUE]
       ELSE [limiter |-> [lim EXCEPT !.failures[key] = retained],
             now_blocked |-> FALSE]

\* AuthRateLimiter.record_success
limiter_record_success(lim, key) ==
    [lim EXCEPT !.failures[key] = <<>>, !.blocked_until[key] = NoTime]

TooManyRequests == "429"
Unauthorized == "401"
Authorized == "200"

Answer(key, status, verified, retry_after) ==
    [key |-> key, status |-> status, verified |-> verified,
     retry_after |-> retry_after]

Request(ip, collection, correct) ==
    [ip |-> ip, collection |-> collection, correct |-> correct]

LimiterTickSteps == {1, window_seconds - 1, block_seconds - 1}

LimiterTick(d) ==
    /\ clock_ticks < MaxLimiterTicks
    /\ clock' = clock + d
    /\ clock_ticks' = clock_ticks + 1
    /\ UNCHANGED <<vars, sync_vars, breaker_vars, limiter_vars, outer_vars>>

\* verify_collection_key up to "await repo.verify_api_key": a blocked key
\* is answered 429 here, any other request goes on to its verification
RequestArrives(ip, collection, correct) ==
    /\ LET key == make_key(ip, collection)
           gate == is_blocked(limiter, key, clock)
       IN /\ limiter' = gate.limiter
          /\ IF gate.blocked
             THEN /\ response' = Answer(key, TooManyRequests, FALSE,
                                        gate.remaining)
                  /\ UNCHANGED awaiting
             ELSE /\ BagCardinality(awaiting) < MaxAwaiting
                  /\ awaiting' = awaiting (+)
                                  SetToBag({Request(ip, collection, correct)})
                  /\ UNCHANGED response
    /\ UNCHANGED <<fail_log, claimed_until>>
    /\ UNCHANGED <<vars, sync_vars, clock_vars, breaker_vars, outer_vars>>

\* the last max_failures failed verifications of a key
Logged(log, t) ==
    LET all == Append(log, t)
    IN IF Len(all) > max_failures THEN Tail(all) ELSE all

\* max_failures failed verifications, all younger than window
CallsForBlock(log, t) ==
    Len(log) = max_failures /\ t - log[1] < window_seconds

\* verify_collection_key from the return of repo.verify_api_key on
VerificationReturns(req) ==
    /\ BagIn(req, awaiting)
    /\ awaiting' = awaiting (-) SetToBag({req})
    /\ LET key == make_key(req.ip, req.collection)
       IN IF req.correct
          THEN /\ limiter' = limiter_record_success(limiter, key)
               /\ response' = Answer(key, Authorized, TRUE, 0)
               /\ fail_log' = [fail_log EXCEPT ![key] = <<>>]
               /\ UNCHANGED claimed_until
          ELSE LET recorded == limiter_record_failure(limiter, key, clock)
                   log == Logged(fail_log[key], clock)
               IN /\ limiter' = recorded.limiter
                  /\ response' =
                         IF recorded.now_blocked
                         THEN Answer(key, TooManyRequests, TRUE, block_seconds)
                         ELSE Answer(key, Unauthorized, TRUE, 0)
                  /\ fail_log' = [fail_log EXCEPT ![key] = log]
                  /\ claimed_until' =
                         IF CallsForBlock(log, clock)
                         THEN [claimed_until EXCEPT ![key] = clock + block_seconds]
                         ELSE claimed_until
    /\ UNCHANGED <<vars, sync_vars, clock_vars, breaker_vars, outer_vars>>

LimiterNext ==
    \/ \E d \in LimiterTickSteps : LimiterTick(d)
    \/ \E ip \in ClientIps, c \in GuardedCollections, correct \in BOOLEAN :
           RequestArrives(ip, c, correct)
    \/ \E req \in BagToSet(awaiting) : VerificationReturns(req)

LimiterSpec == Init /\ [][LimiterNext]_<<clock_vars, limiter_vars>>

----------------------------------------------------------------------------
(***************************************************************************)
(* Properties of the auth limiter.                                         *)
(***************************************************************************)
\* the block that max_failures failed verifications within window call for
\* is still running for the key
BlockClaimed(key) ==
    claimed_until[key] # NoTime /\ clock < claimed_until[key]

\* the request of this step was answered 429 at the gate, its key unverified
AnsweredBlocked(key) ==
    /\ response'.key = key
    /\ response'.status = TooManyRequests
    /\ ~response'.verified
    /\ awaiting' = awaiting

\* C19: after max_failures failed verifications for a key within window,
\* every request arriving for that key during the following block_duration
\* is answered 429 without being verified, whatever credentials it carries;
\* a request goes on to verification only once the block has expired.
C19_BlockedForBlockDuration ==
    [][\A ip \in ClientIps, c \in GuardedCollections, correct \in BOOLEAN :
           RequestArrives(ip, c, correct) /\ BlockClaimed(make_key(ip, c))
               => AnsweredBlocked(make_key(ip, c))]_<<clock_vars, limiter_vars>>


\* the failures of the list that are younger than window at time t
Younger(times, t) == SelectSeq(times, LAMBDA x : t - x < window_seconds)

\* what a failed verification of the key at the present time must leave
SlidingFailure(key) ==
    LET retained == Append(Younger(limiter.failures[key], clock), clock)
    IN /\ limiter'.failures[key] = retained
       /\ IF Len(retained) >= max_failures
          THEN /\ limiter'.blocked_until[key] = clock + block_seconds
               /\ response'.status = TooManyRequests
          ELSE /\ limiter'.blocked_until[key] = limiter.blocked_until[key]
               /\ response'.status = Unauthorized
       \* a block is only recorded on max_failures failed verifications
       \* that all fall within one window
       /\ limiter'.blocked_until[key] # limiter.blocked_until[key]
              => CallsForBlock(fail_log'[key], clock)

\* what a successful verification of the key must leave
SuccessClears(key) ==
    /\ limiter'.failures[key] = <<>>
    /\ limiter'.blocked_until[key] = NoTime
    /\ response'.status = Authorized

\* C20: the limiter is a sliding window.  A failed verification keeps only
\* the failures younger than window and counts them with the new one; it
\* records a block exactly when that count reaches max_failures; a
\* successful verification empties the failure list and removes the block;
\* so a block is never recorded unless max_failures failed verifications
\* fall within one window.
C20_SlidingWindow ==
    [][\A req \in BagToSet(awaiting) :
           VerificationReturns(req) =>
               IF req.correct
               THEN SuccessClears(make_key(req.ip, req.collection))
               ELSE SlidingFailure(make_key(req.ip, req.collection))
      ]_<<clock_vars, limiter_vars>>

\* max_failures failed verifications of which the oldest had left the
\* window when the last was recorded: four are retained, no block
C20_Witness ==
    \E key \in LimiterKeys :
        /\ response.key = key
        /\ response.status = Unauthorized
        /\ Len(fail_log[key]) = max_failures
        /\ Len(limiter.failures[key]) = max_failures - 1
        /\ limiter.blocked_until[key] = NoTime

----------------------------------------------------------------------------
(***************************************************************************)
(* Service lifecycle: lifespan of api/app.py, CollectionWatcher of         *)
(* watcher/watcher.py, the watcher_health loop of monitoring/background.py.*)
(***************************************************************************)
not_service_vars ==
    <<vars, sync_vars, breaker_vars, limiter_vars, emitter, aux_vars>>

TheLoop == "loop"       \* asyncio.get_running_loop() inside lifespan
Alive == "alive"        \* an observer whose thread is alive
Dead == "dead"          \* an observer object whose thread is not alive

\* how CollectionWatcher.start can end: mkdir or Thread.start may raise
StartOutcomes == {"ok", "OSError", "RuntimeError"}

observer_alive(w) == w.observer = Alive

\* CollectionWatcher.start
watcher_start(w, loop, t, outcome) ==
    IF w.running THEN [watcher |-> w, raised |-> FALSE]
    ELSE CASE outcome = "OSError" ->
                  \* collections_root.mkdir raises
                  [watcher |-> [w EXCEPT !.event_loop = loop], raised |-> TRUE]
           [] outcome = "RuntimeError" ->
                  \* self.observer.start() raises
                  [watcher |-> [w EXCEPT !.event_loop = loop, !.observer = Dead],
                   raised |-> TRUE]
           [] OTHER ->
                  [watcher |-> [w EXCEPT !.event_loop = loop,
                                         !.observer = Alive,
                                         !.running = TRUE,
                                         !.last_event_time = t],
                   raised |-> FALSE]

\* CollectionWatcher.stop
watcher_stop(w) ==
    IF w.observer # None
    THEN [w EXCEPT !.observer = None, !.running = FALSE]
    ELSE w

\* CollectionWatcher.restart
watcher_restart(w, t, outcome) ==
    IF w.event_loop = None THEN [watcher |-> w, raised |-> FALSE]
    ELSE LET started == watcher_start(watcher_stop(w), w.event_loop, t, outcome)
         IN IF started.raised THEN started
            ELSE [watcher |-> [started.watcher EXCEPT !.restart_count = @ + 1],
                  raised |-> FALSE]

\* CollectionWatcher.record_event
record_event(w, t) == [w EXCEPT !.last_event_time = t]

\* BackgroundTaskManager.start: the watcher_health task sleeps between checks
task_manager_start(m) ==
    IF m.running THEN m ELSE [running |-> TRUE, task |-> "sleeping"]

\* BackgroundTaskManager.stop: the task is cancelled and gathered
task_manager_stop(m) ==
    IF ~m.running THEN m ELSE [running |-> FALSE, task |-> "cancelled"]

ServiceTickSteps == {1, 600}

ServiceTick(d) ==
    /\ clock_ticks < MaxServiceTicks
    /\ clock' = clock + d
    /\ clock_ticks' = clock_ticks + 1
    /\ UNCHANGED <<not_service_vars, service_vars>>

\* await init_db()
InitDb(ok) ==
    /\ lifespan.pc = "init_db"
    /\ lifespan' = [lifespan EXCEPT !.pc = IF ok THEN "ensure_bucket" ELSE "failed"]
    /\ UNCHANGED <<watcher, supervisor, dispatch_log>>
    /\ UNCHANGED <<not_service_vars, clock_vars>>

\* ensure_bucket_exists()
EnsureBucket(ok) ==
    /\ lifespan.pc = "ensure_bucket"
    /\ lifespan' = [lifespan EXCEPT !.pc = IF ok THEN "start_watcher" ELSE "failed"]
    /\ UNCHANGED <<watcher, supervisor, dispatch_log>>
    /\ UNCHANGED <<not_service_vars, clock_vars>>

\* watcher.start(loop)
StartWatcher(outcome) ==
    /\ lifespan.pc = "start_watcher"
    /\ LET started == watcher_start(watcher, TheLoop, clock, outcome)
       IN /\ watcher' = started.watcher
          /\ lifespan' = [lifespan EXCEPT
                 !.pc = IF started.raised THEN "failed" ELSE "scan_existing_files"]
    /\ UNCHANGED <<supervisor, dispatch_log>>
    /\ UNCHANGED <<not_service_vars, clock_vars>>

\* scan_existing_files up to its first ingestion: the folders are listed
ScanBegins(files) ==
    /\ lifespan.pc = "scan_existing_files"
    /\ lifespan' = [lifespan EXCEPT !.pc = "scan", !.todo = files]
    /\ UNCHANGED <<watcher, supervisor, dispatch_log>>
    /\ UNCHANGED <<not_service_vars, clock_vars>>

\* await handle_file_created_or_modified(file_path) for one file of the scan
ScanIngests(f) ==
    /\ lifespan.pc = "scan"
    /\ f \in lifespan.todo
    /\ lifespan' = [lifespan EXCEPT !.todo = @ \ {f}]
    /\ UNCHANGED <<watcher, supervisor, dispatch_log>>
    /\ UNCHANGED <<not_service_vars, clock_vars>>

\* await ensure_collection_exists raises inside the scan: startup fails
ScanRaises ==
    /\ lifespan.pc = "scan"
    /\ lifespan.todo # {}
    /\ lifespan' = [lifespan EXCEPT !.pc = "failed"]
    /\ UNCHANGED <<watcher, supervisor, dispatch_log>>
    /\ UNCHANGED <<not_service_vars, clock_vars>>

\* "Initial scan complete"
ScanCompletes ==
    /\ lifespan.pc = "scan"
    /\ lifespan.todo = {}
    /\ lifespan' = [lifespan EXCEPT !.pc = "start_tasks", !.scan_done = TRUE]
    /\ UNCHANGED <<watcher, supervisor, dispatch_log>>
    /\ UNCHANGED <<not_service_vars, clock_vars>>

\* await task_manager.start(), then yield: the application serves
StartTasks ==
    /\ lifespan.pc = "start_tasks"
    /\ supervisor' = task_manager_start(supervisor)
    /\ lifespan' = [lifespan EXCEPT !.pc = "serving"]
    /\ UNCHANGED <<watcher, dispatch_log>>
    /\ UNCHANGED <<not_service_vars, clock_vars>>

\* a request is accepted: only between the yield and the shutdown
ServeRequest ==
    /\ lifespan.pc = "serving"
    /\ ~dispatch_log.served
    /\ dispatch_log' = [dispatch_log EXCEPT !.served = TRUE]
    /\ UNCHANGED <<lifespan, watcher, supervisor>>
    /\ UNCHANGED <<not_service_vars, clock_vars>>

\* shutdown: await task_manager.stop()
StopTasks ==
    /\ lifespan.pc = "serving"
    /\ supervisor' = task_manager_stop(supervisor)
    /\ lifespan' = [lifespan EXCEPT !.pc = "stop_watcher"]
    /\ UNCHANGED <<watcher, dispatch_log>>
    /\ UNCHANGED <<not_service_vars, clock_vars>>

\* shutdown: watcher.stop()
StopWatcher ==
    /\ lifespan.pc = "stop_watcher"
    /\ watcher' = watcher_stop(watcher)
    /\ lifespan' = [lifespan EXCEPT !.pc = "close_db"]
    /\ UNCHANGED <<supervisor, dispatch_log>>
    /\ UNCHANGED <<not_service_vars, clock_vars>>

\* shutdown: await close_db()
CloseDb ==
    /\ lifespan.pc = "close_db"
    /\ lifespan' = [lifespan EXCEPT !.pc = "closed"]
    /\ UNCHANGED <<watcher, supervisor, dispatch_log>>
    /\ UNCHANGED <<not_service_vars, clock_vars>>

\* the observer thread reports a change: VaultEventHandler.on_created,
\* on_modified, on_deleted or on_moved schedules the handler on the loop
ObserverDispatches ==
    /\ observer_alive(watcher)
    /\ dispatch_log' = [dispatch_log EXCEPT
           !.last_time = clock,
           !.during_scan = @ \/ lifespan.pc = "scan"]
    /\ UNCHANGED <<lifespan, watcher, supervisor>>
    /\ UNCHANGED <<not_service_vars, clock_vars>>

\* the observer thread ends on an error of its own
ObserverDies ==
    /\ observer_alive(watcher)
    /\ watcher.restart_count < MaxRestarts
    /\ watcher' = [watcher EXCEPT !.observer = Dead]
    /\ UNCHANGED <<lifespan, supervisor, dispatch_log>>
    /\ UNCHANGED <<not_service_vars, clock_vars>>

\* one round of _watcher_health_loop after its sleep: the restart of a
\* watcher that is marked running with a dead observer; an exception is
\* logged and the loop goes on
WatcherHealthCheck(outcome) ==
    /\ supervisor.running
    /\ supervisor.task = "sleeping"
    /\ IF watcher.running /\ ~observer_alive(watcher)
       THEN watcher' = watcher_restart(watcher, clock, outcome).watcher
       ELSE /\ outcome = "ok"
            /\ UNCHANGED watcher
    /\ UNCHANGED <<lifespan, supervisor, dispatch_log>>
    /\ UNCHANGED <<not_service_vars, clock_vars>>

\* ComponentStatus of monitoring/health.py
UP == "up"
DOWN == "down"
DEGRADED == "degraded"
UNKNOWN == "unknown"
ComponentStatus == {UP, DOWN, DEGRADED, UNKNOWN}

\* check_watcher warns when the last event is older than ten minutes
STALE_AFTER_SECONDS == 600

\* check_watcher: the status it reports at time t.  The age is computed
\* before the checks; with _last_event_time None the subtraction raises
\* TypeError, which the probe reports as DOWN
check_watcher(w, t) ==
    IF w.last_event_time = NoTime THEN DOWN
    ELSE LET last_event_age == t - w.last_event_time
         IN IF ~w.running THEN DOWN
            ELSE IF ~observer_alive(w) THEN DOWN
            ELSE IF last_event_age # 0 /\ last_event_age > STALE_AFTER_SECONDS
                 THEN DEGRADED
                 ELSE UP

\* a health request runs check_watcher
WatcherProbe ==
    /\ lifespan.pc = "serving"
    /\ dispatch_log' = [dispatch_log EXCEPT !.probe = check_watcher(watcher, clock)]
    /\ UNCHANGED <<lifespan, watcher, supervisor>>
    /\ UNCHANGED <<not_service_vars, clock_vars>>

ServiceNext ==
    \/ \E d \in ServiceTickSteps : ServiceTick(d)
    \/ \E ok \in BOOLEAN : InitDb(ok)
    \/ \E ok \in BOOLEAN : EnsureBucket(ok)
    \/ \E outcome \in StartOutcomes : StartWatcher(outcome)
    \/ \E files \in SUBSET ScanFiles : ScanBegins(files)
    \/ \E f \in ScanFiles : ScanIngests(f)
    \/ ScanRaises
    \/ ScanCompletes
    \/ StartTasks
    \/ ServeRequest
    \/ StopTasks
    \/ StopWatcher
    \/ CloseDb
    \/ ObserverDispatches
    \/ ObserverDies
    \/ \E outcome \in StartOutcomes : WatcherHealthCheck(outcome)
    \/ WatcherProbe

ServiceSpec == Init /\ [][ServiceNext]_<<clock_vars, service_vars>>

----------------------------------------------------------------------------
(***************************************************************************)
(* Properties of the service lifecycle.                                    *)
(***************************************************************************)
\* scan_existing_files has listed the folders and has not finished
Scanning == lifespan.pc = "scan"

\* CollectionWatcher.start has run: the observer was created
WatcherStarted == watcher.event_loop # None

\* C21: at boot the startup scan runs to completion before the watcher is
\* started, so that no watcher event is dispatched while the scan is still
\* ingesting; scan and start of the watcher both precede the first request.
C21_ScanBeforeWatcher ==
    /\ Scanning => ~WatcherStarted
    /\ ~dispatch_log.during_scan
    /\ WatcherStarted => lifespan.scan_done \/ lifespan.pc = "failed"
    /\ dispatch_log.served => lifespan.scan_done /\ WatcherStarted


\* the watcher_health loop runs a round after every sleep; a restart that
\* can succeed again and again does succeed
ServiceFairSpec ==
    /\ ServiceSpec
    /\ WF_<<clock_vars, service_vars>>(
           \E outcome \in StartOutcomes : WatcherHealthCheck(outcome))
    /\ SF_<<clock_vars, service_vars>>(WatcherHealthCheck("ok"))

Serving == lifespan.pc = "serving"

\* a round of the supervisor that raises nothing restarts a watcher that is
\* marked running with a dead observer
RestartsDeadObserver ==
    WatcherHealthCheck("ok") /\ watcher.running /\ ~observer_alive(watcher)
        => /\ observer_alive(watcher')
           /\ watcher'.running
           /\ watcher'.event_loop = TheLoop
           /\ watcher'.restart_count = watcher.restart_count + 1

\* the supervisor task ends by cancellation only
EndsOnlyByCancel ==
    supervisor.task = "sleeping" /\ supervisor'.task # "sleeping"
        => supervisor'.task = "cancelled" /\ lifespan'.pc = "stop_watcher"

\* C22: whenever the watcher is marked running and its observer thread is
\* not alive, the supervisor's next check stops and starts the watcher on
\* the original loop and adds one to the restart counter; the supervisor
\* survives every exception of a check or restart and ends only when it is
\* cancelled; so while the service runs, a dead observer thread is always
\* eventually replaced by a live one.
C22_DeadObserverReplaced ==
    /\ [][RestartsDeadObserver /\ EndsOnlyByCancel]_<<clock_vars, service_vars>>
    /\ (Serving /\ WatcherStarted /\ ~observer_alive(watcher))
           ~> (observer_alive(watcher) \/ ~Serving)

----------------------------------------------------------------------------
(***************************************************************************)
(* The observer thread and the delivery of its events to the handlers of   *)
(* watcher/handler.py.  The PollingObserver compares the folder with the   *)
(* snapshot of its last poll and queues one event per difference; the      *)
(* loop runs the handler of each queued event when it is free.             *)
(***************************************************************************)
Event(kind, path) == [kind |-> kind, path |-> path]

\* the event a poll queues for a path that differs from the snapshot
diff_kind(before, after) ==
    IF before = Absent THEN "created"
    ELSE IF after = Absent THEN "deleted" ELSE "modified"

RECURSIVE EventsOf(_, _, _)
EventsOf(paths, snapshot, files) ==
    IF paths = {} THEN <<>>
    ELSE LET p == CHOOSE x \in paths : TRUE
         IN <<Event(diff_kind(snapshot[p], files[p]), p)>>
                \o EventsOf(paths \ {p}, snapshot, files)

Changed == {p \in Paths : emitter.snapshot[p] # fs[p]}

\* one poll of the observer thread that finds a difference
ObserverPolls ==
    /\ Changed # {}
    /\ Len(emitter.events) + Cardinality(Changed) <= MaxEvents
    /\ emitter' = [emitter EXCEPT
           !.snapshot = fs,
           !.events = @ \o EventsOf(Changed, emitter.snapshot, fs)]
    /\ UNCHANGED <<vars, sync_vars, clock_vars, breaker_vars, limiter_vars,
                   service_vars, aux_vars>>

Delivered(e, verdict) ==
    [emitter EXCEPT !.events = Tail(@),
                    !.delivered = [kind |-> e.kind, path |-> e.path,
                                   verdict |-> verdict]]

\* on_created / on_modified: handle_file_created_or_modified runs on the
\* loop; it returns at once when the path is no regular file any more
DeliverCreatedOrModified ==
    /\ emitter.events # <<>>
    /\ LET e == Head(emitter.events)
       IN /\ e.kind \in {"created", "modified"}
          /\ LoopIdle
          /\ IF fs[e.path] = Absent
             THEN /\ emitter' = Delivered(e, "not_a_file")
                  /\ UNCHANGED vars
             ELSE /\ GateCreatedOrModified(e.path)
                  /\ emitter' = Delivered(e, last_gate'[e.path])
    /\ UNCHANGED <<sync_vars, clock_vars, breaker_vars, limiter_vars,
                   service_vars, aux_vars>>

\* what handle_file_deleted does with a delete event
deleted_verdict(exists, started_at, last_time, t) ==
    IF exists THEN "exists"
    ELSE IF gate_deleted(started_at, last_time, t) THEN "accepted"
    ELSE IF started_at # NoTime THEN "in_flight" ELSE "debounce"

\* on_deleted: handle_file_deleted runs on the loop
DeliverDeleted(store_ok) ==
    /\ emitter.events # <<>>
    /\ LET e == Head(emitter.events)
           verdict == deleted_verdict(fs[e.path] # Absent, in_flight[e.path],
                                      last_event[e.path], now)
       IN /\ e.kind = "deleted"
          /\ LoopIdle
          /\ emitter' = Delivered(e, verdict)
          /\ IF verdict = "accepted"
             THEN AcceptDeleted(e.path, store_ok)
             ELSE /\ store_ok
                  /\ UNCHANGED vars
    /\ UNCHANGED <<sync_vars, clock_vars, breaker_vars, limiter_vars,
                   service_vars, aux_vars>>

\* the file of an ingestion is gone when it is read: open() raises
FileVanished(w) ==
    /\ w.pc \in SyncPcs
    /\ fs[w.path] = Absent
    /\ IngestRaises(w, "OSError")

\* a writer puts a new file into the collection folder
CreateFile(p, bytes) ==
    /\ fs[p] = Absent
    /\ WriteFile(p, bytes)

\* a writer overwrites a file of the collection folder
OverwriteFile(p, bytes) ==
    /\ fs[p] # Absent
    /\ WriteFile(p, bytes)

WatchTick(d) ==
    /\ ticks < MaxWatchTicks
    /\ Tick(d)

\* the observer, the handlers and their coroutines, with database and
\* object store available
Watching ==
    \/ ObserverPolls
    \/ DeliverCreatedOrModified
    \/ DeliverDeleted(TRUE)
    \/ \E w \in workers : EnsureCollection(w)
    \/ \E w \in workers : ComputeHash(w)
    \/ \E w \in workers : UploadFile(w)
    \/ \E w \in workers : CreateOrReplace(w)
    \/ \E w \in workers : CreateOrReplaceCommit(w)
    \/ \E w \in workers : FileVanished(w)
    \/ \E w \in workers : MarkDeleted(w)
    \/ \E w \in workers : MarkDeletedCommit(w)

\* what the writers of the watched folder put into a new file
NewFileContents == {"hello"}

\* files appear in the folder and are removed from it
WatchNext ==
    \/ \E p \in Paths, bytes \in NewFileContents : CreateFile(p, bytes)
    \/ \E p \in Paths : RemoveFile(p)
    \/ \E d \in TickSteps : WatchTick(d)
    \/ Watching

watch_vars == <<vars, emitter>>

WatchSpec == Init /\ [][WatchNext]_watch_vars

\* files appear in the folder and are overwritten there, with any content,
\* and never removed
OverwriteNext ==
    \/ \E p \in Paths, bytes \in Contents : CreateFile(p, bytes)
    \/ \E p \in Paths, bytes \in Contents : OverwriteFile(p, bytes)
    \/ \E d \in TickSteps : WatchTick(d)
    \/ ObserverPolls
    \/ DeliverCreatedOrModified
    \/ \E w \in workers : EnsureCollection(w)
    \/ \E w \in workers : ComputeHash(w)
    \/ \E w \in workers : UploadFile(w)
    \/ \E w \in workers : CreateOrReplace(w)
    \/ \E w \in workers : CreateOrReplaceCommit(w)

OverwriteSpec == Init /\ [][OverwriteNext]_watch_vars

----------------------------------------------------------------------------
\* the handler of the delete event at the head of the queue runs in this step
DeleteHandled ==
    /\ emitter.events # <<>>
    /\ Head(emitter.events).kind = "deleted"
    /\ emitter'.events = Tail(emitter.events)

HeadPath == Head(emitter.events).path

\* C23: a delete event whose path still exists on disk, or whose path has
\* an ingestion in flight, is dropped: the object store, the catalog, the
\* in-flight map and the last-event map are the same after its handler as
\* before, and no deletion is started.
C23_DeleteDroppedUntouched ==
    [][DeleteHandled /\ (fs[HeadPath] # Absent \/ in_flight[HeadPath] # NoTime)
         => /\ store' = store
            /\ catalog' = catalog
            /\ in_flight' = in_flight
            /\ last_event' = last_event
            /\ workers' = workers]_watch_vars

\* a delete event was dropped because an ingestion of its path is in flight
C23_Witness ==
    /\ emitter.delivered.kind = "deleted"
    /\ emitter.delivered.verdict = "in_flight"
    /\ in_flight[emitter.delivered.path] # NoTime

----------------------------------------------------------------------------
\* the handler of the create or modify event at the head of the queue runs
\* in this step
CreateOrModifyHandled ==
    /\ emitter.events # <<>>
    /\ Head(emitter.events).kind \in {"created", "modified"}
    /\ emitter'.events = Tail(emitter.events)

\* the event accepted last for the path was a create or modify event: it
\* wrote the last-event entry when it dispatched its pipeline
LastAcceptedCreateOrModify(p) ==
    last_event[p] # NoTime /\ last_event[p] = last_dispatch[p]

\* the event accepted last for the path was a delete event
LastAcceptedDelete(p) ==
    last_event[p] # NoTime /\ last_event[p] # last_dispatch[p]

\* a delete event of a removed path with nothing in flight, after an
\* accepted create or modify event, is accepted
DeleteNotDebouncedByCreate ==
    DeleteHandled /\ fs[HeadPath] = Absent /\ in_flight[HeadPath] = NoTime
        /\ LastAcceptedCreateOrModify(HeadPath)
    => emitter'.delivered.verdict = "accepted"

\* a create or modify event of an existing file with nothing in flight,
\* after an accepted delete event, is dispatched
CreateNotDebouncedByDelete ==
    CreateOrModifyHandled /\ fs[HeadPath] # Absent
        /\ in_flight[HeadPath] = NoTime /\ LastAcceptedDelete(HeadPath)
    => emitter'.delivered.verdict = "dispatched"

\* C24: the debounce of delete events is tracked apart from the debounce of
\* create and modify events: an accepted create or modify event of a path
\* never makes a delete event of the path be dropped inside the debounce
\* window, and an accepted delete event never makes a following create or
\* modify event be dropped inside it.
C24_SeparateDebounce ==
    [][DeleteNotDebouncedByCreate /\ CreateNotDebouncedByDelete]_watch_vars

----------------------------------------------------------------------------
(***************************************************************************)
(* Progress of the watched folder.  The observer thread polls every five   *)
(* seconds, the loop runs every handler the observer scheduled, and every  *)
(* coroutine is resumed when its await completes; writers and the clock    *)
(* owe nothing.                                                            *)
(***************************************************************************)
WatchFairness ==
    /\ WF_watch_vars(ObserverPolls)
    /\ WF_watch_vars(DeliverCreatedOrModified)
    /\ WF_watch_vars(DeliverDeleted(TRUE))
    /\ WF_watch_vars(\E w \in workers : EnsureCollection(w))
    /\ WF_watch_vars(\E w \in workers : ComputeHash(w))
    /\ WF_watch_vars(\E w \in workers : UploadFile(w))
    /\ WF_watch_vars(\E w \in workers : CreateOrReplace(w))
    /\ WF_watch_vars(\E w \in workers : CreateOrReplaceCommit(w))
    /\ WF_watch_vars(\E w \in workers : FileVanished(w))
    /\ WF_watch_vars(\E w \in workers : MarkDeleted(w))
    /\ WF_watch_vars(\E w \in workers : MarkDeletedCommit(w))

WatchFairSpec == WatchSpec /\ WatchFairness

ReadyRowOf(p) ==
    get_ready_by_collection_and_name(catalog, p[1], p[2]) # {}

\* the row of the path is a tombstone, its blob is gone, the list
\* endpoints do not return its name
Gone(p) ==
    /\ get_by_key(catalog, KeyOfPath(p)) # {}
    /\ \A r \in get_by_key(catalog, KeyOfPath(p)) : r.status = DELETED
    /\ store[KeyOfPath(p)] = Absent
    /\ p[2] \notin list_objects(catalog, p[1])
    /\ \A e \in list_hashes(catalog, p[1]) : e[1] # p[2]

\* nothing is left to do: no coroutine alive, no event queued, the
\* observer's snapshot equal to the folder
Quiescent ==
    /\ workers = {}
    /\ emitter.events = <<>>
    /\ emitter.snapshot = fs

----------------------------------------------------------------------------
OverwriteFairSpec ==
    /\ OverwriteSpec
    /\ WF_watch_vars(ObserverPolls)
    /\ WF_watch_vars(DeliverCreatedOrModified)
    /\ WF_watch_vars(\E w \in workers : EnsureCollection(w))
    /\ WF_watch_vars(\E w \in workers : ComputeHash(w))
    /\ WF_watch_vars(\E w \in workers : UploadFile(w))
    /\ WF_watch_vars(\E w \in workers : CreateOrReplace(w))
    /\ WF_watch_vars(\E w \in workers : CreateOrReplaceCommit(w))

\* the file holds the bytes while the catalog still lists it with the hash
\* of other bytes: it was overwritten after it was ingested
Overwritten(p, bytes) ==
    /\ fs[p] = bytes
    /\ \E r \in get_ready_by_collection_and_name(catalog, p[1], p[2]) :
           r.hash_sha256 # sha256(bytes)

\* the collection has exactly one READY row of the name, with the SHA-256
\* of the bytes
OneReadyRowOf(p, bytes) ==
    LET found == get_ready_by_collection_and_name(catalog, p[1], p[2])
    IN /\ Cardinality(found) = 1
       /\ \A r \in found : r.hash_sha256 = sha256(bytes)

----------------------------------------------------------------------------
(***************************************************************************)
(* Collection secrets: the .vault_key file of a collection directory and   *)
(* the api_key_hash of its row in table "collections".                     *)
(***************************************************************************)
not_key_vars ==
    <<sync_vars, clock_vars, breaker_vars, limiter_vars, service_vars, emitter,
      health, tenants>>

Whitespace == {" ", "\n"}

RECURSIVE lstrip(_)
lstrip(text) ==
    IF text # <<>> /\ Head(text) \in Whitespace THEN lstrip(Tail(text)) ELSE text

RECURSIVE rstrip(_)
rstrip(text) ==
    IF text # <<>> /\ text[Len(text)] \in Whitespace
    THEN rstrip(SubSeq(text, 1, Len(text) - 1))
    ELSE text

\* str.strip()
strip(text) == rstrip(lstrip(text))

\* hashlib.sha256(api_key.encode()).hexdigest(): distinct keys, distinct
\* digests
hash_api_key(api_key) == [sha256 |-> api_key]

Collection(api_key_hash) == [api_key_hash |-> api_key_hash, is_active |-> TRUE]

\* CollectionRepository.get_or_create(name, api_key=...): the existing row
\* and no key, or a new row with the hash of the given key, of a generated
\* key when none is given
get_or_create_keyed(row, api_key, generated) ==
    IF row # Nothing THEN [row |-> row, api_key |-> Nothing]
    ELSE LET key == IF api_key = Nothing THEN generated ELSE api_key[1]
         IN [row |-> Some(Collection(hash_api_key(key))), api_key |-> Some(key)]

\* CollectionRepository.update_api_key(name, new_key)
update_api_key(row, new_key) ==
    IF row = Nothing THEN row
    ELSE Some([row[1] EXCEPT !.api_key_hash = hash_api_key(new_key)])

\* CollectionRepository.verify_api_key
verify_api_key(row, api_key) ==
    /\ row # Nothing
    /\ row[1].is_active
    /\ row[1].api_key_hash = hash_api_key(api_key)

\* CollectionRepository.rotate_api_key
rotate_api_key(row, generated) ==
    IF row = Nothing THEN row
    ELSE Some([row[1] EXCEPT !.api_key_hash = hash_api_key(generated)])

\* CollectionRepository.deactivate
deactivate(row) ==
    IF row = Nothing THEN row ELSE Some([row[1] EXCEPT !.is_active = FALSE])

\* variant: ensure_collection_exists that does not look for a key file
ensure_collection_exists_ignoring_key_file(key_file, row, generated) ==
    LET created == get_or_create_keyed(row, Nothing, generated)
    IN [row |-> created.row,
        key_file |-> IF created.api_key # Nothing
                     THEN Some(created.api_key[1]) ELSE key_file]

\* ensure_collection_exists: the row and the key file it leaves behind
ensure_collection_exists(key_file, row, generated) ==
    LET existing_key == IF key_file # Nothing
                        THEN Some(strip(key_file[1])) ELSE Nothing
        created == get_or_create_keyed(row, existing_key, generated)
    IN [row |-> created.row,
        key_file |-> IF created.api_key # Nothing /\ existing_key = Nothing
                     THEN Some(created.api_key[1]) ELSE key_file]

\* variant: handle_vault_key_modified without the check for an empty key
handle_vault_key_modified_accepting_empty(key_file, row) ==
    IF key_file = Nothing THEN row
    ELSE update_api_key(row, strip(key_file[1]))

\* handle_vault_key_modified: the row it leaves behind
handle_vault_key_modified(key_file, row) ==
    IF key_file = Nothing THEN row
    ELSE IF strip(key_file[1]) = <<>> THEN row
    ELSE update_api_key(row, strip(key_file[1]))

KeyOp(op, name) ==
    [op |-> op, key_file |-> keyring.key_file, row |-> keyring.row,
     name |-> name]

\* an operator puts a secret into <collection>/.vault_key
WriteKeyFile(text) ==
    /\ keyring.key_file # Some(text)
    /\ keyring' = [keyring EXCEPT !.key_file = Some(text),
                                  !.last = KeyOp("write", ".vault_key")]
    /\ UNCHANGED <<vars, not_key_vars>>

RemoveKeyFile ==
    /\ keyring.key_file # Nothing
    /\ keyring' = [keyring EXCEPT !.key_file = Nothing,
                                  !.last = KeyOp("remove", ".vault_key")]
    /\ UNCHANGED <<vars, not_key_vars>>

\* ensure_collection_exists under get_session: the commit at the exit of
\* the session follows the write of the key file; when it fails the row is
\* rolled back and the file stays
EnsureCollectionExists(generated, committed) ==
    /\ LET done == ensure_collection_exists(keyring.key_file, keyring.row,
                                            generated)
       IN keyring' = [keyring EXCEPT
              !.key_file = done.key_file,
              !.row = IF committed THEN done.row ELSE @,
              !.last = KeyOp(IF committed THEN "ensure" ELSE "ensure_failed",
                             "alpha")]
    /\ UNCHANGED <<vars, not_key_vars>>

KeyFileName == ".vault_key"
WatchedNames == FileNames \cup {KeyFileName}

\* VaultEventHandler.on_modified: the handler the event of a file is given
on_modified(name) ==
    IF name = KeyFileName THEN "handle_vault_key_modified"
    ELSE "handle_file_created_or_modified"

\* a modified event of a file of the collection reaches on_modified
OnModified(c, name) ==
    /\ LoopIdle
    /\ IF on_modified(name) = "handle_vault_key_modified"
       THEN /\ keyring' = [keyring EXCEPT
                   !.row = handle_vault_key_modified(keyring.key_file,
                                                     keyring.row),
                   !.last = KeyOp("modified", name)]
            /\ UNCHANGED vars
       ELSE /\ GateCreatedOrModified(<<c, name>>)
            /\ keyring' = [keyring EXCEPT !.last = KeyOp("modified", name)]
    /\ UNCHANGED not_key_vars

RotateApiKey(generated) ==
    /\ keyring.row # Nothing
    /\ keyring' = [keyring EXCEPT !.row = rotate_api_key(@, generated),
                                  !.last = KeyOp("rotate", "alpha")]
    /\ UNCHANGED <<vars, not_key_vars>>

Deactivate ==
    /\ keyring.row # Nothing /\ keyring.row[1].is_active
    /\ keyring' = [keyring EXCEPT !.row = deactivate(@),
                                  !.last = KeyOp("deactivate", "alpha")]
    /\ UNCHANGED <<vars, not_key_vars>>

KeyNext ==
    \/ \E text \in KeyFileTexts : WriteKeyFile(text)
    \/ RemoveKeyFile
    \/ \E g \in GeneratedKeys, committed \in BOOLEAN :
           EnsureCollectionExists(g, committed)
    \/ \E p \in Paths, bytes \in Contents : WriteFile(p, bytes)
    \/ \E c \in CollectionNames, name \in WatchedNames : OnModified(c, name)
    \/ \E g \in GeneratedKeys : RotateApiKey(g)
    \/ Deactivate

key_spec_vars == <<vars, keyring>>

KeySpec == Init /\ [][KeyNext]_key_spec_vars

----------------------------------------------------------------------------
\* ensure_collection_exists ran to its commit in this step
Ensured ==
    \E g \in GeneratedKeys : EnsureCollectionExists(g, TRUE)

\* the row exists already: neither the stored hash nor the key file changes
ExistingRowUntouched ==
    keyring.row # Nothing
        => keyring'.row = keyring.row /\ keyring'.key_file = keyring.key_file

\* no row and no key file: a generated secret is hashed into the new row and
\* written to the key file
GeneratedKeyWritten ==
    keyring.row = Nothing /\ keyring.key_file = Nothing
        => \E g \in GeneratedKeys :
              /\ keyring'.row = Some(Collection(hash_api_key(g)))
              /\ keyring'.key_file = Some(g)

----------------------------------------------------------------------------
\* the modified event of a .vault_key file is handled in this step
KeyFileModified ==
    \E c \in CollectionNames : OnModified(c, KeyFileName)

NoIngestionStarted ==
    /\ workers' = workers
    /\ store' = store
    /\ catalog' = catalog
    /\ in_flight' = in_flight

AnyKey == GeneratedKeys \cup KeyFileTexts \cup {strip(t) : t \in KeyFileTexts}

----------------------------------------------------------------------------
\* the handler of a dispatched event records the event on the watcher
DispatchRecorded ==
    ObserverDispatches => watcher'.last_event_time = clock

\* the probe answers DEGRADED only when the last dispatched event, if any,
\* is more than ten minutes old
StaleOnlyWithoutEvents ==
    lifespan.pc = "serving" /\ WatcherProbe /\ dispatch_log'.probe = DEGRADED
        => \/ dispatch_log.last_time = NoTime
           \/ clock - dispatch_log.last_time > STALE_AFTER_SECONDS

\* C29: every filesystem event the watcher dispatches updates the watcher's
\* last_event_time, so that the watcher probe reports DEGRADED for
\* staleness only when no event was observed for more than ten minutes.
C29_DispatchRefreshesLastEvent ==
    [][DispatchRecorded /\ StaleOnlyWithoutEvents]_<<clock_vars, service_vars>>

----------------------------------------------------------------------------
(***************************************************************************)
(* Health aggregation: get_system_health of monitoring/health.py and the   *)
(* routes of monitoring/router.py that answer with it.                     *)
(***************************************************************************)
not_health_vars ==
    <<vars, sync_vars, clock_vars, breaker_vars, limiter_vars, service_vars,
      emitter, keyring, tenants>>

\* what a check_* coroutine hands to asyncio.gather: a ComponentHealth, or
\* the exception it raised
ComponentHealth(name, status) ==
    [name |-> name, status |-> status, raised |-> FALSE]

\* the checks of get_system_health, in the order it gathers them
BaseChecks == <<"database", "minio", "filesystem", "watcher">>

checks(include_consistency) ==
    IF include_consistency THEN Append(BaseChecks, "consistency")
    ELSE BaseChecks

NoComponents == [n \in {} |-> UP]

\* the loop of get_system_health over the gathered results: the components
\* dict and the list of critical failures
RECURSIVE collect(_, _, _, _)
collect(results, critical, components, critical_failures) ==
    IF results = <<>>
    THEN [components |-> components, critical_failures |-> critical_failures]
    ELSE LET result == Head(results)
         IN IF result.raised
            THEN collect(Tail(results), critical,
                         ("unknown" :> DOWN) @@ components,
                         Append(critical_failures, "unknown"))
            ELSE collect(Tail(results), critical,
                         (result.name :> result.status) @@ components,
                         IF result.status = DOWN /\ result.name \in critical
                         THEN Append(critical_failures, result.name)
                         ELSE critical_failures)

\* the overall status of get_system_health
overall(collected) ==
    IF collected.critical_failures = <<>>
    THEN IF \A n \in DOMAIN collected.components :
                collected.components[n] = UP
         THEN UP ELSE DEGRADED
    ELSE DOWN

SystemHealth(collected) ==
    [status |-> overall(collected),
     components |-> collected.components,
     critical_failures |-> collected.critical_failures]

\* variant: the object store counted among the critical components
get_system_health_store_critical(results) ==
    SystemHealth(collect(results, {"database", "minio", "filesystem"},
                         NoComponents, <<>>))

\* get_system_health, from the gathered results on
get_system_health(results) ==
    SystemHealth(collect(results, {"database", "filesystem"},
                         NoComponents, <<>>))

\* the status code of GET /health/ready
readiness(system) == IF system.status = DOWN THEN 503 ELSE 200

Gathered(names, statuses) ==
    [i \in 1..Len(names) |-> ComponentHealth(names[i], statuses[i])]

\* GET /health/ready: the probes answer, the route aggregates and replies
Readiness(statuses) ==
    /\ health.route = None
    /\ LET results == Gathered(checks(FALSE), statuses)
           system == get_system_health(results)
       IN health' = [route |-> "ready", results |-> results,
                     status |-> system.status,
                     critical_failures |-> system.critical_failures,
                     code |-> readiness(system)]
    /\ UNCHANGED not_health_vars

\* GET /health/status
Status(include_consistency, statuses) ==
    /\ health.route = None
    /\ LET results == Gathered(checks(include_consistency), statuses)
           system == get_system_health(results)
       IN health' = [route |-> "status", results |-> results,
                     status |-> system.status,
                     critical_failures |-> system.critical_failures,
                     code |-> 200]
    /\ UNCHANGED not_health_vars

\* the response is sent; the next health request may come
ResponseSent ==
    /\ health.route # None
    /\ health' = NoHealth
    /\ UNCHANGED not_health_vars

StatusTuples(n) == [1..n -> ComponentStatus]

HealthNext ==
    \/ \E statuses \in StatusTuples(4) : Readiness(statuses)
    \/ \E statuses \in StatusTuples(4) : Status(FALSE, statuses)
    \/ \E statuses \in StatusTuples(5) : Status(TRUE, statuses)
    \/ ResponseSent

HealthSpec == Init /\ [][HealthNext]_health

----------------------------------------------------------------------------
\* the status a component reported in the last health request
Reported(name) ==
    {r.status : r \in {health.results[i] : i \in DOMAIN health.results}
                \cap {ComponentHealth(name, s) : s \in ComponentStatus}}

Probed == {health.results[i].status : i \in DOMAIN health.results}

\* C30: for every combination of component statuses the aggregated status
\* is DOWN exactly when the database or the filesystem is DOWN, else UP
\* exactly when every probed component is UP, else DEGRADED; a DOWN object
\* store or watcher with database and filesystem not DOWN gives DEGRADED;
\* and /health/ready answers 503 exactly when the aggregate is DOWN.
C30_Aggregation ==
    health.route # None =>
        LET critical_down == DOWN \in Reported("database") \cup Reported("filesystem")
        IN /\ health.status = DOWN <=> critical_down
           /\ ~critical_down => (health.status = UP <=> Probed = {UP})
           /\ ~critical_down /\ Probed # {UP} => health.status = DEGRADED
           /\ (~critical_down
                 /\ DOWN \in Reported("minio") \cup Reported("watcher"))
                => health.status = DEGRADED
           /\ health.route = "ready" =>
                 (health.code = 503 <=> health.status = DOWN)
           /\ health.route = "ready" /\ health.status # DOWN
                 => health.code = 200

\* the object store alone is DOWN: the system is DEGRADED and ready
C30_Witness ==
    /\ health.route = "ready"
    /\ Reported("minio") = {DOWN}
    /\ Reported("database") = {UP}
    /\ Reported("filesystem") = {UP}
    /\ Reported("watcher") = {UP}
    /\ health.status = DEGRADED
    /\ health.code = 200

----------------------------------------------------------------------------
(***************************************************************************)
(* Shutdown: the statements of lifespan after its yield.                   *)
(***************************************************************************)
\* CollectionWatcher.stop has run: no observer, not marked running
WatcherStopped == watcher.observer = None /\ ~watcher.running

\* BackgroundTaskManager.stop has cancelled and gathered the tasks
TasksCancelled == supervisor.task = "cancelled"

\* close_db has disposed of the engine
CatalogClosed == lifespan.pc = "closed"

\* C31: on shutdown the watcher is stopped first, then the background tasks
\* are cancelled and awaited, then the catalog handle is closed: no
\* background task is cancelled before the watcher has stopped, and the
\* catalog is closed last.
C31_ShutdownOrder ==
    /\ TasksCancelled => WatcherStopped
    /\ CatalogClosed => WatcherStopped /\ TasksCancelled

----------------------------------------------------------------------------
(***************************************************************************)
(* handle_file_created_or_modified as the observer calls it: for any path  *)
(* below the root, with its early returns before the gate.                 *)
(***************************************************************************)
\* a directory at the path
Directory == "Directory"

\* paths the observer may report: a file of a collection, an ignored name,
\* a file of a nested folder, a file directly below the root
GatePaths ==
    Paths \cup {<<"alpha", ".vault_key">>, <<"alpha", "sub", "README.md">>,
                <<"README.md">>}

\* path.name
name_of(path) == path[Len(path)]

\* file_path.is_file()
is_file(kind) == kind \notin {Absent, Directory}

\* the three early returns of the handler, in its order
reaches_gate(path, kind) ==
    /\ ~should_ignore(name_of(path))
    /\ is_file(kind)
    /\ parse_collection_path(path) # NoParse

ComponentsInit ==
    /\ SyncInit
    /\ ClockInit
    /\ BreakerInit
    /\ LimiterInit
    /\ ServiceInit
    /\ EmitterInit
    /\ KeyInit
    /\ HealthInit
    /\ TenantInit

\* the ignored file and the nested file lie in the folder; the collection
\* path is empty until a writer comes
GateInit ==
    /\ now = 0
    /\ ticks = 0
    /\ fs = [p \in GatePaths |-> IF p \in Paths THEN Absent ELSE "hello"]
    /\ store = [k \in Keys |-> Absent]
    /\ collections = {}
    /\ catalog = {}
    /\ next_id = 1
    /\ in_flight = [p \in GatePaths |-> NoTime]
    /\ last_event = [p \in GatePaths |-> NoTime]
    /\ workers = {}
    /\ evicted = [p \in GatePaths |-> FALSE]
    /\ last_outcome = [p \in GatePaths |-> "none"]
    /\ last_dispatch = [p \in GatePaths |-> NoTime]
    /\ last_gate = [p \in GatePaths |-> "none"]
    /\ ComponentsInit

\* on_created or on_modified schedules the handler for the path: it
\* returns before the gate, or runs the gate
HandleCreatedOrModified(p) ==
    IF reaches_gate(p, fs[p])
    THEN CreatedOrModifiedEvent(p)
    ELSE /\ LoopIdle
         /\ last_gate' = [last_gate EXCEPT ![p] = "returned"]
         /\ UNCHANGED <<now, ticks, fs, store, collections, catalog, next_id,
                        in_flight, last_event, workers, evicted, last_outcome,
                        last_dispatch>>
         /\ UNCHANGED component_vars

\* what a writer leaves at a collection path
GateKinds == {"hello", Directory}

\* the pipelines behind the gate are followed to their end only: the
\* finally clause runs whichever statement ends them
GateNext ==
    \/ \E p \in Paths, kind \in GateKinds : WriteFile(p, kind)
    \/ \E p \in Paths : RemoveFile(p)
    \/ \E d \in TickSteps : Tick(d)
    \/ \E p \in GatePaths : HandleCreatedOrModified(p)
    \/ \E w \in workers, exc \in ExceptionKinds : IngestRaises(w, exc)

GateSpec == GateInit /\ [][GateNext]_vars

\* what the gate must do with an event of path p at the present time
GateVerdict(p) ==
    LET reaches == /\ ~should_ignore(name_of(p))
                   /\ fs[p] \notin {Absent, Directory}
                   /\ Len(p) = 2
        stale == in_flight[p] # NoTime /\ now - in_flight[p] >= PROCESSING_TIMEOUT
        fresh == in_flight[p] = NoTime \/ stale
        calm == last_event[p] = NoTime \/ now - last_event[p] >= DEBOUNCE_SECONDS
    IN /\ Dispatched(p) <=> (reaches /\ fresh /\ calm)
       /\ Dispatched(p) => in_flight'[p] = now /\ last_event'[p] = now
       /\ ~Dispatched(p) =>
             /\ last_event' = last_event
             /\ workers' = workers
             /\ in_flight'[p] = IF reaches /\ stale THEN NoTime ELSE in_flight[p]
       /\ \A q \in GatePaths \ {p} :
             in_flight'[q] = in_flight[q] /\ last_event'[q] = last_event[q]

\* C32: the gate dispatches a create/modify event at time now iff the path
\* has no in-flight entry or one at least PROCESSING_TIMEOUT old, and no
\* last-event timestamp or one at least DEBOUNCE_SECONDS old; on dispatch
\* both entries of the path are set to now; on a drop neither map changes,
\* except that a stale in-flight entry is evicted; events for ignored
\* names, non-regular files or paths not exactly one level below a
\* collection never reach the gate.
C32_GateDispatchesIff ==
    [][\A p \in GatePaths : HandleCreatedOrModified(p) => GateVerdict(p)]_vars

\* C32 witness: events of the ignored and the nested path returned before
\* the gate, and an event of the collection's file evicted a stale entry
\* and was dispatched
C32_Witness ==
    /\ last_gate[<<"alpha", ".vault_key">>] = "returned"
    /\ last_gate[<<"alpha", "sub", "README.md">>] = "returned"
    /\ in_flight[<<"alpha", ".vault_key">>] = NoTime
    /\ \E p \in Paths :
          /\ evicted[p]
          /\ last_gate[p] = "dispatched"
          /\ in_flight[p] = now
          /\ Cardinality(IngestWorkers(p)) = 2

----------------------------------------------------------------------------
(***************************************************************************)
(* Two pipelines of one path: the older one's entry was evicted as stale.  *)
(***************************************************************************)
\* pipelines of the path of w that were dispatched after w
NewerWorkers(w) ==
    {v \in workers : v.kind = "ingest" /\ v.path = w.path /\ v.started > w.started}

\* C33: a worker that ends removes only its own in-flight registration: if
\* its entry was evicted as stale and a newer worker has registered the
\* same path, the older worker's completion leaves the newer worker's
\* in-flight entry in place, so the path stays gated until the newer
\* worker ends.
C33_EndRemovesOwnRegistration ==
    [][\A w \in workers :
          (Ended(w) /\ NewerWorkers(w) # {}) =>
              \E v \in NewerWorkers(w) :
                  v \in workers' /\ in_flight'[w.path] = v.started]_vars

----------------------------------------------------------------------------
(***************************************************************************)
(* The breaker under concurrent callers: every method runs under the       *)
(* breaker's lock, the guarded function runs outside it, so that other     *)
(* callers check, record and reset between the check and the record of a   *)
(* call.                                                                   *)
(***************************************************************************)
\* CircuitBreaker.reset
reset(b) == [transition_to(b, CLOSED) EXCEPT !.last_failure_time = NoTime]

\* breaker.check_state() at the entry of a guarded call: a caller that is
\* not rejected goes on to the guarded function
CallerChecks ==
    /\ callers < MaxCallers
    /\ LET checked == check_state(breaker, clock)
       IN /\ breaker' = checked.breaker
          /\ callers' = IF checked.raised THEN callers ELSE callers + 1
    /\ UNCHANGED <<call, streak, gauge>>
    /\ UNCHANGED <<vars, sync_vars, clock_vars, limiter_vars, outer_vars>>

\* the guarded function of a caller returned: breaker.record_success()
CallerRecordsSuccess ==
    /\ callers > 0
    /\ breaker' = record_success(breaker)
    /\ callers' = callers - 1
    /\ UNCHANGED <<call, streak, gauge>>
    /\ UNCHANGED <<vars, sync_vars, clock_vars, limiter_vars, outer_vars>>

\* the guarded function of a caller raised: breaker.record_failure()
CallerRecordsFailure ==
    /\ callers > 0
    /\ breaker' = record_failure(breaker, clock)
    /\ callers' = callers - 1
    /\ UNCHANGED <<call, streak, gauge>>
    /\ UNCHANGED <<vars, sync_vars, clock_vars, limiter_vars, outer_vars>>

\* breaker.reset() by an operator, whatever the callers are doing
Reset ==
    /\ breaker' = reset(breaker)
    /\ UNCHANGED <<call, streak, gauge, callers>>
    /\ UNCHANGED <<vars, sync_vars, clock_vars, limiter_vars, outer_vars>>

RaceNext ==
    \/ \E d \in BreakerTickSteps : BreakerTick(d)
    \/ CallerChecks
    \/ CallerRecordsSuccess
    \/ CallerRecordsFailure
    \/ Reset

RaceSpec == Init /\ [][RaceNext]_<<clock_vars, breaker_vars>>

\* C34: in every reachable state of the breaker, under any interleaving of
\* check_state, record_success, record_failure and reset by concurrent
\* callers: CLOSED implies failure_count < failure_threshold, OPEN implies
\* that last_failure_time is set, HALF_OPEN implies success_count <
\* success_threshold.
C34_BreakerStateInvariant ==
    /\ breaker.state = CLOSED => breaker.failure_count < failure_threshold
    /\ breaker.state = OPEN => breaker.last_failure_time # NoTime
    /\ breaker.state = HALF_OPEN => breaker.success_count < success_threshold

\* C34 witness: the breaker was opened, a caller admitted as a probe is
\* still out with a second one, and one success of a probe was counted
C34_Witness ==
    /\ breaker.state = HALF_OPEN
    /\ breaker.failure_count >= failure_threshold
    /\ breaker.success_count = success_threshold - 1
    /\ callers = MaxCallers

\* C35: reset() puts the breaker into a clean CLOSED state from any prior
\* state: afterwards state = CLOSED, failure_count = 0, success_count = 0
\* and last_failure_time is unset, so that exactly failure_threshold
\* further consecutive failures are needed to open it.
C35_ResetIsClean ==
    [][Reset => /\ breaker'.state = CLOSED
                /\ breaker'.failure_count = 0
                /\ breaker'.success_count = 0
                /\ breaker'.last_failure_time = NoTime]_<<clock_vars, breaker_vars>>

----------------------------------------------------------------------------
(***************************************************************************)
(* The limiter under requests of several (client IP, collection) pairs.    *)
(***************************************************************************)
not_tenant_vars ==
    <<vars, sync_vars, breaker_vars, limiter_vars, service_vars, emitter,
      keyring, health>>

TenantTick(d) ==
    /\ clock_ticks < MaxTenantTicks
    /\ clock' = clock + d
    /\ clock_ticks' = clock_ticks + 1
    /\ UNCHANGED <<tenants, not_tenant_vars>>

\* verify_collection_key for a request of the pair, followed to its answer
TenantRequest(ip, collection, correct) ==
    /\ LET key == make_key(ip, collection)
           gate == is_blocked(tenants, key, clock)
       IN tenants' =
              IF gate.blocked THEN gate.limiter
              ELSE IF correct THEN limiter_record_success(gate.limiter, key)
              ELSE limiter_record_failure(gate.limiter, key, clock).limiter
    /\ UNCHANGED <<clock_vars, not_tenant_vars>>

TenantNext ==
    \/ \E d \in LimiterTickSteps : TenantTick(d)
    \/ \E pr \in TenantPairs, correct \in BOOLEAN :
           TenantRequest(pr[1], pr[2], correct)

TenantSpec == Init /\ [][TenantNext]_<<clock_vars, tenants>>

\* what the limiter holds for a pair at time t: whether a request of the
\* pair would be answered 429, and the failures it has accumulated
TenantView(lim, pr, t) ==
    LET key == make_key(pr[1], pr[2])
    IN [blocked |-> is_blocked(lim, key, t).blocked,
        failures |-> lim.failures[key]]

\* C36: limiter state is independent per (client IP, collection) pair: for
\* any two distinct pairs, failures, successes and blocks recorded for one
\* pair never change whether the other pair is blocked or how many
\* failures it has accumulated.
C36_PairsIndependent ==
    [][\A pr \in TenantPairs, correct \in BOOLEAN :
           TenantRequest(pr[1], pr[2], correct) =>
               \A other \in TenantPairs \ {pr} :
                   TenantView(tenants', other, clock)
                       = TenantView(tenants, other, clock)
      ]_<<clock_vars, tenants>>

----------------------------------------------------------------------------
(***************************************************************************)
(* A recorded block under concurrent requests of its key.                  *)
(***************************************************************************)
\* a block of the key is recorded and its end has not passed after the step
BlockInForce(key) ==
    limiter.blocked_until[key] # NoTime /\ clock' < limiter.blocked_until[key]

\* C37: once a block has been recorded for a key it stays in force until
\* blocked_until has passed: under any interleaving of concurrent requests
\* for that key, including requests that passed the is_blocked check
\* before the block was recorded and then verify successfully, no request
\* removes the block early.
C37_BlockStaysInForce ==
    [][\A key \in LimiterKeys :
           BlockInForce(key) =>
               /\ limiter'.blocked_until[key] # NoTime
               /\ limiter'.blocked_until[key] >= limiter.blocked_until[key]
      ]_<<clock_vars, limiter_vars>>

----------------------------------------------------------------------------
(***************************************************************************)
(* The gauge vault_minio_circuit_breaker_open of monitoring/metrics.py.    *)
(***************************************************************************)
\* the breaker driven by puts and deletes only, the two operations that
\* write the gauge
GaugeNext ==
    \/ \E d \in BreakerTickSteps : BreakerTick(d)
    \/ \E p \in Paths, outcome \in PutOutcomes : GuardedIngest(p, outcome)
    \/ \E p \in Paths, outcome \in DeleteOutcomes, db_ok \in BOOLEAN :
           GuardedDeletion(p, outcome, db_ok)

GaugeSpec == Init /\ [][GaugeNext]_<<vars, clock_vars, breaker_vars>>

\* C38: after any sequence of put and delete outcomes, the gauge
\* vault_minio_circuit_breaker_open is 1 if and only if the breaker is
\* OPEN; in particular it returns to 0 once the breaker has recovered to
\* HALF_OPEN or CLOSED.
C38_GaugeTellsOpen ==
    gauge = 1 <=> breaker.state = OPEN

----------------------------------------------------------------------------
(***************************************************************************)
(* The sync barrier and the download route over the state the handlers     *)
(* leave.                                                                  *)
(***************************************************************************)
\* the collection folders as get_folder_files lists them
folder_listing == [p \in Paths |-> IF fs[p] = Absent THEN Absent ELSE "file"]

\* the keys of _files_in_progress
paths_in_progress == {p \in Paths : in_flight[p] # NoTime}

\* get_sync_state of the collection, called in the present state
BarrierState(c) ==
    get_sync_state(folder_listing, catalog, paths_in_progress, c)

\* names of the non-ignored regular files in the collection folder
FolderNames(c) ==
    {p[2] : p \in {q \in Paths : q[1] = c /\ fs[q] # Absent
                                 /\ ~should_ignore(q[2])}}

\* names that have a READY row in the collection
ReadyNames(c) ==
    {r.name : r \in {x \in catalog : x.collection = c /\ x.status = READY}}

====
